---- MODULE Spec2Model ----
(***************************************************************************)
(* A model of plox, a tree-walking Lox interpreter written in Python:      *)
(* scanner (src/lox/scanner.py), parser (src/lox/parser.py), resolver      *)
(* (src/lox/resolver.py), environments (src/lox/environment.py), the       *)
(* interpreter (src/lox/interpreter.py) and the driver (src/lox/lox.py).   *)
(*                                                                         *)
(* Scanner, parser and resolver are functions of their input and are       *)
(* written as (recursive) operators that thread the object's fields        *)
(* through a record.  The interpreter is a state machine: one action per   *)
(* visit method (and one per point where a visit method resumes after a    *)
(* sub-evaluation), with the Python call stack as an explicit stack of     *)
(* frames and a raised Python exception as a control state that unwinds    *)
(* that stack.                                                             *)
(***************************************************************************)
EXTENDS Integers, Sequences, FiniteSets, TLC

VARIABLES
    source,             \* the source text handed to Lox.__run
    phase,              \* position of Lox.__run: "start", "scanned", "parsed", "running", "done", ...
    tokens,             \* the list[Token] returned by Scanner.scan_tokens
    statements,         \* list[Stmt] returned by Parser.parse
    had_error,          \* Lox._had_error
    had_runtime_error,  \* Lox._had_runtime_error
    reported,           \* what the error callbacks printed, in order
    locals,             \* Interpreter._locals: node identity -> distance
    envs,               \* the Environment objects allocated so far
    environment,        \* Interpreter._environment (index into envs)
    ctl,                \* what the interpreter does next
    kont,               \* the interpreter's Python call stack, innermost frame last
    output,             \* what print statements wrote to stdout
    input,              \* input of a function checked on its own
    result,             \* its result
    instances           \* the LoxInstance and LoxClass objects allocated so far

vars == <<source, phase, tokens, statements, had_error, had_runtime_error, reported,
          locals, envs, environment, ctl, kont, output, input, result, instances>>

-----------------------------------------------------------------------------
(* Values.  Python None is Nil; a float is a record with its integer part  *)
(* and its fraction digits.                                                 *)

Nil == [k |-> "nil"]
Bool(b) == [k |-> "bool", b |-> b]
Num(n) == [k |-> "num", n |-> n, frac |-> ""]
Str(s) == [k |-> "str", s |-> s]

\* A Python None where an object is optional (Stmt | None, Expr | None).
\* x has a value: an operator's argument is evaluated when it is first read,
\* and reading it in a test evaluates it in the place of the test
Computed(x) == x = x

NoneNode == [t |-> "None"]

Token(type, lexeme, literal, line) ==
    [type |-> type, lexeme |-> lexeme, literal |-> literal, line |-> line]

-----------------------------------------------------------------------------
(* Scanner (src/lox/scanner.py).  Indices are Python's: 0-based.           *)

\* stands for the character "\0" that __peek returns at the end of the source
NUL == "\\0"

Digits == {"0", "1", "2", "3", "4", "5", "6", "7", "8", "9"}

Letters ==
    {"a", "b", "c", "d", "e", "f", "g", "h", "i", "j", "k", "l", "m",
     "n", "o", "p", "q", "r", "s", "t", "u", "v", "w", "x", "y", "z",
     "A", "B", "C", "D", "E", "F", "G", "H", "I", "J", "K", "L", "M",
     "N", "O", "P", "Q", "R", "S", "T", "U", "V", "W", "X", "Y", "Z", "_"}

KEYWORDS ==
    {"and", "class", "else", "false", "for", "fun", "if", "nil", "or",
     "print", "return", "super", "this", "true", "var", "while", "break"}

\* keyword.name of the TokenType whose lower-cased name is the identifier
KeywordType(identifier) ==
    CASE identifier = "and" -> "AND"
      [] identifier = "class" -> "CLASS"
      [] identifier = "else" -> "ELSE"
      [] identifier = "false" -> "FALSE"
      [] identifier = "for" -> "FOR"
      [] identifier = "fun" -> "FUN"
      [] identifier = "if" -> "IF"
      [] identifier = "nil" -> "NIL"
      [] identifier = "or" -> "OR"
      [] identifier = "print" -> "PRINT"
      [] identifier = "return" -> "RETURN"
      [] identifier = "super" -> "SUPER"
      [] identifier = "this" -> "THIS"
      [] identifier = "true" -> "TRUE"
      [] identifier = "var" -> "VAR"
      [] identifier = "while" -> "WHILE"
      [] identifier = "break" -> "BREAK"

\* source[i]
CharAt(src, i) == SubSeq(src, i + 1, i + 1)

\* source[i:j]
Slice(src, i, j) == SubSeq(src, i + 1, j)

Scanner(src) ==
    [source |-> src, tokens |-> <<>>, start |-> 0, current |-> 0, line |-> 1,
     errors |-> <<>>]

ScIsAtEnd(sc) == sc.current >= Len(sc.source)

ScIsDigit(char) == char \in Digits

ScIsAlpha(char) == char \in Letters

ScIsAlphaNumeric(char) == ScIsAlpha(char) \/ ScIsDigit(char)

ScPeek(sc) == IF ScIsAtEnd(sc) THEN NUL ELSE CharAt(sc.source, sc.current)

ScPeekNext(sc) ==
    IF sc.current + 1 >= Len(sc.source) THEN NUL
    ELSE CharAt(sc.source, sc.current + 1)

\* __advance: the character it returns is CharAt(sc.source, sc.current)
ScAdvance(sc) == [sc EXCEPT !.current = @ + 1]

\* __match(expected) is true
ScMatches(sc, expected) ==
    ~ScIsAtEnd(sc) /\ CharAt(sc.source, sc.current) = expected

ScAddToken(sc, type, literal) ==
    [sc EXCEPT !.tokens =
        Append(@, Token(type, Slice(sc.source, sc.start, sc.current), literal, sc.line))]

\* the lexical-error callback
ScError(sc, message) ==
    [sc EXCEPT !.errors = Append(@, [message |-> message, line |-> sc.line])]

DigitValue(char) ==
    CASE char = "0" -> 0 [] char = "1" -> 1 [] char = "2" -> 2
      [] char = "3" -> 3 [] char = "4" -> 4 [] char = "5" -> 5
      [] char = "6" -> 6 [] char = "7" -> 7 [] char = "8" -> 8
      [] char = "9" -> 9

RECURSIVE DigitsValue(_)
DigitsValue(text) ==
    IF Len(text) = 0 THEN 0
    ELSE 10 * DigitsValue(SubSeq(text, 1, Len(text) - 1))
         + DigitValue(SubSeq(text, Len(text), Len(text)))

RECURSIVE StripZeros(_)
StripZeros(text) ==
    IF Len(text) > 0 /\ SubSeq(text, Len(text), Len(text)) = "0"
    THEN StripZeros(SubSeq(text, 1, Len(text) - 1))
    ELSE text

RECURSIVE IndexOfDot(_, _)
IndexOfDot(text, i) ==
    IF i >= Len(text) THEN Len(text)
    ELSE IF CharAt(text, i) = "." THEN i
    ELSE IndexOfDot(text, i + 1)

\* float(text) of a digit run with an optional fraction
ParseFloat(text) ==
    LET dot == IndexOfDot(text, 0)
    IN [k |-> "num", n |-> DigitsValue(Slice(text, 0, dot)),
        frac |-> IF dot >= Len(text) THEN ""
                 ELSE StripZeros(Slice(text, dot + 1, Len(text)))]

RECURSIVE ScLineComment(_)
ScLineComment(sc) ==
    IF ScPeek(sc) # "\n" /\ ~ScIsAtEnd(sc) THEN ScLineComment(ScAdvance(sc))
    ELSE sc

RECURSIVE ScBlockCommentsLoop(_, _)
ScBlockCommentsLoop(sc, open_block_comments) ==
    IF open_block_comments > 0 /\ sc.current + 1 < Len(sc.source)
    THEN LET two_chars_ahead == ScPeek(sc) \o ScPeekNext(sc)
         IN IF two_chars_ahead = "/*"
            THEN ScBlockCommentsLoop(ScAdvance(ScAdvance(sc)), open_block_comments + 1)
            ELSE IF two_chars_ahead = "*/"
            THEN ScBlockCommentsLoop(ScAdvance(ScAdvance(sc)), open_block_comments - 1)
            ELSE ScBlockCommentsLoop(
                    ScAdvance(IF ScPeek(sc) = "\n" THEN [sc EXCEPT !.line = @ + 1] ELSE sc),
                    open_block_comments)
    ELSE IF open_block_comments # 0
         THEN ScError(sc, "Unterminated block comment.")
         ELSE sc

ScBlockComments(sc) == ScBlockCommentsLoop(sc, 1)

RECURSIVE ScStringLoop(_)
ScStringLoop(sc) ==
    IF ScPeek(sc) # "\"" /\ ~ScIsAtEnd(sc)
    THEN ScStringLoop(ScAdvance(IF ScPeek(sc) = "\n" THEN [sc EXCEPT !.line = @ + 1] ELSE sc))
    ELSE sc

ScString(sc0) ==
    LET sc == ScStringLoop(sc0)
    IN IF ScIsAtEnd(sc) THEN ScError(sc, "Unterminated string.")
       ELSE LET closed == ScAdvance(sc)
            IN ScAddToken(closed, "STRING",
                          Str(Slice(closed.source, closed.start + 1, closed.current - 1)))

RECURSIVE ScDigitRun(_)
ScDigitRun(sc) == IF ScIsDigit(ScPeek(sc)) THEN ScDigitRun(ScAdvance(sc)) ELSE sc

ScNumber(sc0) ==
    LET sc1 == ScDigitRun(sc0)
        sc2 == IF ScPeek(sc1) = "." /\ ScIsDigit(ScPeekNext(sc1))
               THEN ScDigitRun(ScAdvance(sc1))
               ELSE sc1
    IN ScAddToken(sc2, "NUMBER", ParseFloat(Slice(sc2.source, sc2.start, sc2.current)))

RECURSIVE ScIdentifierLoop(_)
ScIdentifierLoop(sc) ==
    IF ScIsAlphaNumeric(ScPeek(sc)) THEN ScIdentifierLoop(ScAdvance(sc)) ELSE sc

ScIdentifier(sc0) ==
    LET sc == ScIdentifierLoop(sc0)
        identifier == Slice(sc.source, sc.start, sc.current)
    IN IF identifier \in KEYWORDS
       THEN ScAddToken(sc, KeywordType(identifier), Nil)
       ELSE ScAddToken(sc, "IDENTIFIER", Nil)

\* the two-character operators: the second type when "=" follows
ScOneOrTwo(sc, single, double) ==
    IF ScMatches(sc, "=") THEN ScAddToken(ScAdvance(sc), double, Nil)
    ELSE ScAddToken(sc, single, Nil)

ScanToken(sc0) ==
    LET char == CharAt(sc0.source, sc0.current)
        sc == ScAdvance(sc0)
    IN CASE char = "(" -> ScAddToken(sc, "LEFT_PAREN", Nil)
         [] char = ")" -> ScAddToken(sc, "RIGHT_PAREN", Nil)
         [] char = "{" -> ScAddToken(sc, "LEFT_BRACE", Nil)
         [] char = "}" -> ScAddToken(sc, "RIGHT_BRACE", Nil)
         [] char = "," -> ScAddToken(sc, "COMMA", Nil)
         [] char = "." -> ScAddToken(sc, "DOT", Nil)
         [] char = "-" -> ScAddToken(sc, "MINUS", Nil)
         [] char = "+" -> ScAddToken(sc, "PLUS", Nil)
         [] char = ":" -> ScAddToken(sc, "COLON", Nil)
         [] char = ";" -> ScAddToken(sc, "SEMICOLON", Nil)
         [] char = "*" -> ScAddToken(sc, "STAR", Nil)
         [] char = "%" -> ScAddToken(sc, "MODULO", Nil)
         [] char = "?" -> ScAddToken(sc, "QUESTION", Nil)
         [] char = "!" -> ScOneOrTwo(sc, "BANG", "BANG_EQUAL")
         [] char = "=" -> ScOneOrTwo(sc, "EQUAL", "EQUAL_EQUAL")
         [] char = "<" -> ScOneOrTwo(sc, "LESS", "LESS_EQUAL")
         [] char = ">" -> ScOneOrTwo(sc, "GREATER", "GREATER_EQUAL")
         [] char = "/" ->
                IF ScMatches(sc, "/") THEN ScLineComment(ScAdvance(sc))
                ELSE IF ScMatches(sc, "*") THEN ScBlockComments(ScAdvance(sc))
                ELSE ScAddToken(sc, "SLASH", Nil)
         [] char \in {" ", "\r", "\t"} -> sc
         [] char = "\n" -> [sc EXCEPT !.line = @ + 1]
         [] char = "\"" -> ScString(sc)
         [] OTHER ->
                IF ScIsDigit(char) THEN ScNumber(sc)
                ELSE IF ScIsAlpha(char) THEN ScIdentifier(sc)
                ELSE ScError(sc, "Unexpected character.")

RECURSIVE ScanLoop(_)
ScanLoop(sc) ==
    IF ~ScIsAtEnd(sc) THEN ScanLoop(ScanToken([sc EXCEPT !.start = sc.current]))
    ELSE sc

\* scan_tokens: the scanner after the run; its tokens are the result
ScanTokens(src) ==
    LET sc == ScanLoop(Scanner(src))
    IN [sc EXCEPT !.tokens = Append(@, Token("EOF", "", Nil, sc.line))]

-----------------------------------------------------------------------------
(* AST nodes (src/lox/expr.py, src/lox/stmt.py).  Python objects are keys   *)
(* of Interpreter._locals by identity; the nodes used as keys carry an id,  *)
(* a fresh one for every constructor call.                                   *)

ExprAssign(id, name, value) == [t |-> "Assign", id |-> id, name |-> name, value |-> value]
ExprLogical(left, operator, right) ==
    [t |-> "Logical", left |-> left, operator |-> operator, right |-> right]
ExprTernary(condition, consequent, alternative) ==
    [t |-> "Ternary", condition |-> condition, consequent |-> consequent,
     alternative |-> alternative]
ExprBinary(left, operator, right) ==
    [t |-> "Binary", left |-> left, operator |-> operator, right |-> right]
ExprCall(callee, paren, arguments) ==
    [t |-> "Call", callee |-> callee, paren |-> paren, arguments |-> arguments]
ExprGrouping(expression) == [t |-> "Grouping", expression |-> expression]
ExprLiteral(value) == [t |-> "Literal", value |-> value]
ExprUnary(operator, right) == [t |-> "Unary", operator |-> operator, right |-> right]
ExprVariable(id, name) == [t |-> "Variable", id |-> id, name |-> name]
ExprLambda(id, params, body) ==
    [t |-> "Lambda", id |-> id, params |-> params, body |-> body]
ExprGet(object, name) == [t |-> "Get", object |-> object, name |-> name]
ExprSet(object, name, value) ==
    [t |-> "Set", object |-> object, name |-> name, value |-> value]
ExprThis(id, keyword) == [t |-> "This", id |-> id, keyword |-> keyword]

StmtVar(name, is_initialized, initializer) ==
    [t |-> "Var", name |-> name, is_initialized |-> is_initialized,
     initializer |-> initializer]
StmtExpression(expression) == [t |-> "Expression", expression |-> expression]
StmtFunction(name, params, body) ==
    [t |-> "Function", name |-> name, params |-> params, body |-> body,
     is_static |-> FALSE, is_getter |-> FALSE]
StmtClass(name, methods) ==
    [t |-> "Class", name |-> name, methods |-> methods, superclass |-> NoneNode]
StmtIf(condition, then_branch, else_branch) ==
    [t |-> "If", condition |-> condition, then_branch |-> then_branch,
     else_branch |-> else_branch]
StmtWhile(condition, body) == [t |-> "While", condition |-> condition, body |-> body]
StmtBreak(token) == [t |-> "Break", token |-> token]
StmtPrint(expression) == [t |-> "Print", expression |-> expression]
StmtReturn(keyword, value) == [t |-> "Return", keyword |-> keyword, value |-> value]
StmtBlock(stmts) == [t |-> "Block", statements |-> stmts]

-----------------------------------------------------------------------------
(* Parser (src/lox/parser.py).  A parse method takes the parser's fields    *)
(* and returns them with the node it built; exc is a ParseError on its way  *)
(* up to __declaration.                                                      *)

\* the arity cap of __function, __finish_call and __lambda
MaxArity == 255

Parser(token_list) ==
    [tokens |-> token_list, current |-> 0, loop_count |-> 0, function_count |-> 0,
     errors |-> <<>>, exc |-> FALSE,
     next_id |-> 1,        \* identity of the next node object
     active_loops |-> 0,   \* __while_statement/__for_statement frames on the Python stack
     break_seen |-> <<>>]  \* at each __break_statement: _loop_count and active_loops

Ret(ps, node) == [ps |-> ps, node |-> node]

Parser_peek(ps) == ps.tokens[ps.current + 1]

\* tokens[current - 1]; Python's index -1 is the last token
Parser_previous(ps) ==
    IF ps.current = 0 THEN ps.tokens[Len(ps.tokens)] ELSE ps.tokens[ps.current]

Parser_is_at_end(ps) == Parser_peek(ps).type = "EOF"

Parser_check(ps, type_) == ~Parser_is_at_end(ps) /\ Parser_peek(ps).type = type_

\* __advance: the token it returns is Parser_previous of the result
Parser_advance(ps) ==
    IF ~Parser_is_at_end(ps) THEN [ps EXCEPT !.current = @ + 1] ELSE ps

\* __match(*token_types) is true; the caller then advances
Parser_match(ps, token_types) == \E type \in token_types : Parser_check(ps, type)

\* __error: the callback is invoked; the ParseError is returned, not raised
Parser_error(ps, token, message) ==
    [ps EXCEPT !.errors = Append(@, [message |-> message, token |-> token])]

\* raise self.__error(token, message)
Parser_raise(ps, token, message) ==
    [Parser_error(ps, token, message) EXCEPT !.exc = TRUE]

Parser_consume(ps, token_type, message) ==
    IF Parser_check(ps, token_type)
    THEN Ret(Parser_advance(ps), Parser_peek(ps))
    ELSE Ret(Parser_raise(ps, Parser_peek(ps), message), NoneNode)

SyncKeywords == {"CLASS", "FUN", "VAR", "FOR", "IF", "WHILE", "PRINT", "RETURN"}

RECURSIVE Parser_synchronize(_)
Parser_synchronize(ps) ==
    IF ~Parser_is_at_end(ps)
    THEN LET adv == Parser_advance(ps)
         IN IF Parser_previous(adv).type = "SEMICOLON" THEN adv
            ELSE IF Parser_peek(adv).type \in SyncKeywords THEN adv
            ELSE Parser_synchronize(adv)
    ELSE ps

\* a call of the method __<rule> of the parser; the methods are defined
\* below and the calls are resolved at the end of this section
RECURSIVE Parser_nonterminal(_, _)

\* the loop of __block_statement
RECURSIVE Parser_block_loop(_, _)
Parser_block_loop(ps, stmts) ==
    IF ~Parser_check(ps, "RIGHT_BRACE") /\ ~Parser_is_at_end(ps)
    THEN LET d == Parser_nonterminal("declaration", ps)
         IN IF d.node = NoneNode THEN Parser_block_loop(d.ps, stmts)
            ELSE Parser_block_loop(d.ps, Append(stmts, d.node))
    ELSE Ret(ps, stmts)

Parser_block_statement(ps) ==
    LET l == Parser_block_loop(ps, <<>>)
        c == Parser_consume(l.ps, "RIGHT_BRACE", "Expect '}' after block.")
    IN IF c.ps.exc THEN c ELSE Ret(c.ps, l.node)

\* the parameter loop of __function
RECURSIVE Parser_params_loop(_, _)
Parser_params_loop(ps, params) ==
    LET ps1 == IF Len(params) >= MaxArity
               THEN Parser_error(ps, Parser_peek(ps), "Can't have more than 255 parameters.")
               ELSE ps
        c == Parser_consume(ps1, "IDENTIFIER", "Expect parameter name.")
    IN IF c.ps.exc THEN c
       ELSE IF Parser_match(c.ps, {"COMMA"})
       THEN Parser_params_loop(Parser_advance(c.ps), Append(params, c.node))
       ELSE Ret(c.ps, Append(params, c.node))

Parser_function(ps0, kind) ==
    LET ps1 == [ps0 EXCEPT !.function_count = @ + 1]
        name == Parser_consume(ps1, "IDENTIFIER", "Expect " \o kind \o " name.")
    IN IF name.ps.exc THEN name ELSE
    LET lp == Parser_consume(name.ps, "LEFT_PAREN", "Expect '(' after " \o kind \o " name.")
    IN IF lp.ps.exc THEN lp ELSE
    LET params == IF ~Parser_check(lp.ps, "RIGHT_PAREN")
                  THEN Parser_params_loop(lp.ps, <<>>)
                  ELSE Ret(lp.ps, <<>>)
    IN IF params.ps.exc THEN params ELSE
    LET rp == Parser_consume(params.ps, "RIGHT_PAREN", "Expect ')' after parameters.")
    IN IF rp.ps.exc THEN rp ELSE
    LET lb == Parser_consume(rp.ps, "LEFT_BRACE", "Expr '{' after parameters.")
    IN IF lb.ps.exc THEN lb ELSE
    LET body == Parser_nonterminal("block_statement", lb.ps)
    IN IF body.ps.exc THEN body ELSE
    Ret([body.ps EXCEPT !.function_count = @ - 1],
        StmtFunction(name.node, params.node, body.node))

\* the loop of __class_declaration
RECURSIVE Parser_methods_loop(_, _)
Parser_methods_loop(ps, methods) ==
    IF ~Parser_check(ps, "RIGHT_BRACE") /\ ~Parser_is_at_end(ps)
    THEN LET m == Parser_nonterminal("method", ps)
         IN IF m.ps.exc THEN m ELSE Parser_methods_loop(m.ps, Append(methods, m.node))
    ELSE Ret(ps, methods)

Parser_class_declaration(ps) ==
    LET name == Parser_consume(ps, "IDENTIFIER", "Expect class name.")
    IN IF name.ps.exc THEN name ELSE
    LET lb == Parser_consume(name.ps, "LEFT_BRACE", "Expect left brace.")
    IN IF lb.ps.exc THEN lb ELSE
    LET methods == Parser_methods_loop(lb.ps, <<>>)
    IN IF methods.ps.exc THEN methods ELSE
    LET rb == Parser_consume(methods.ps, "RIGHT_BRACE", "Expect right brace.")
    IN IF rb.ps.exc THEN rb ELSE
    Ret(rb.ps, StmtClass(name.node, methods.node))

Parser_var_declaration(ps) ==
    LET name == Parser_consume(ps, "IDENTIFIER", "Expect variable name.")
    IN IF name.ps.exc THEN name ELSE
    LET has_init == Parser_match(name.ps, {"EQUAL"})
        init == IF has_init THEN Parser_nonterminal("expression", Parser_advance(name.ps))
                ELSE Ret(name.ps, NoneNode)
    IN IF init.ps.exc THEN init ELSE
    LET semi == Parser_consume(init.ps, "SEMICOLON", "Expect ';' after variable declaration.")
    IN IF semi.ps.exc THEN semi ELSE
    Ret(semi.ps, StmtVar(name.node, has_init, init.node))

Parser_expression_statement(ps) ==
    LET value == Parser_nonterminal("expression", ps)
    IN IF value.ps.exc THEN value ELSE
    LET semi == Parser_consume(value.ps, "SEMICOLON", "Expect ';' after value.")
    IN IF semi.ps.exc THEN semi ELSE Ret(semi.ps, StmtExpression(value.node))

Parser_print_statement(ps) ==
    LET value == Parser_nonterminal("expression", ps)
    IN IF value.ps.exc THEN value ELSE
    LET semi == Parser_consume(value.ps, "SEMICOLON", "Expect ';' after value.")
    IN IF semi.ps.exc THEN semi ELSE Ret(semi.ps, StmtPrint(value.node))

Parser_return_statement(ps) ==
    LET keyword == Parser_previous(ps)
        value == IF ~Parser_check(ps, "SEMICOLON") THEN Parser_nonterminal("expression", ps)
                 ELSE Ret(ps, NoneNode)
    IN IF value.ps.exc THEN value ELSE
    LET semi == Parser_consume(value.ps, "SEMICOLON", "Expect ';' after return value.")
    IN IF semi.ps.exc THEN semi ELSE Ret(semi.ps, StmtReturn(keyword, value.node))

Parser_if_statement(ps) ==
    LET lp == Parser_consume(ps, "LEFT_PAREN", "Expect '(' after 'if'.")
    IN IF lp.ps.exc THEN lp ELSE
    LET condition == Parser_nonterminal("expression", lp.ps)
    IN IF condition.ps.exc THEN condition ELSE
    LET rp == Parser_consume(condition.ps, "RIGHT_PAREN", "Expect ')' after if condition.")
    IN IF rp.ps.exc THEN rp ELSE
    LET then_branch == Parser_nonterminal("statement", rp.ps)
    IN IF then_branch.ps.exc THEN then_branch ELSE
    LET else_branch == IF Parser_match(then_branch.ps, {"ELSE"})
                       THEN Parser_nonterminal("statement", Parser_advance(then_branch.ps))
                       ELSE Ret(then_branch.ps, NoneNode)
    IN IF else_branch.ps.exc THEN else_branch ELSE
    Ret(else_branch.ps, StmtIf(condition.node, then_branch.node, else_branch.node))

\* the body of __while_statement, from its first line to its return
Parser_while_statement_body(ps0) ==
    LET ps1 == [ps0 EXCEPT !.loop_count = @ + 1]
        lp == Parser_consume(ps1, "LEFT_PAREN", "Expect '(' after 'while'.")
    IN IF lp.ps.exc THEN lp ELSE
    LET condition == Parser_nonterminal("expression", lp.ps)
    IN IF condition.ps.exc THEN condition ELSE
    LET rp == Parser_consume(condition.ps, "RIGHT_PAREN", "Expect ')' after while condition.")
    IN IF rp.ps.exc THEN rp ELSE
    LET body == Parser_nonterminal("statement", rp.ps)
    IN IF body.ps.exc THEN body ELSE
    Ret([body.ps EXCEPT !.loop_count = @ - 1], StmtWhile(condition.node, body.node))

\* a call of __while_statement: its frame is on the stack from entry to
\* return or raise
Parser_while_statement(ps) ==
    LET r == Parser_while_statement_body([ps EXCEPT !.active_loops = @ + 1])
    IN Ret([r.ps EXCEPT !.active_loops = ps.active_loops], r.node)

\* __for_statement: the initializer clause
Parser_for_initializer(ps) ==
    IF Parser_match(ps, {"SEMICOLON"}) THEN Ret(Parser_advance(ps), NoneNode)
    ELSE IF Parser_match(ps, {"VAR"})
    THEN Parser_nonterminal("var_declaration", Parser_advance(ps))
    ELSE Parser_nonterminal("expression_statement", ps)

\* __for_statement: the condition clause, `true` when there is none
Parser_for_condition(ps) ==
    IF ~Parser_check(ps, "SEMICOLON") THEN Parser_nonterminal("expression", ps)
    ELSE Ret(ps, ExprLiteral(Bool(TRUE)))

\* __for_statement: the increment clause
Parser_for_increment(ps) ==
    IF ~Parser_check(ps, "RIGHT_PAREN") THEN Parser_nonterminal("expression", ps)
    ELSE Ret(ps, NoneNode)

\* __for_statement: the loop built from the clauses and the body
Parser_for_desugar(initializer, condition, increment, parsed) ==
    LET body == IF increment # NoneNode
                THEN StmtBlock(<<parsed, StmtExpression(increment)>>)
                ELSE parsed
        loop == StmtWhile(condition, body)
    IN IF initializer # NoneNode THEN StmtBlock(<<initializer, loop>>)
       ELSE StmtBlock(<<loop>>)

\* the body of __for_statement, from its first line to its return
Parser_for_statement_body(ps0) ==
    LET ps1 == [ps0 EXCEPT !.loop_count = @ + 1]
        lp == Parser_consume(ps1, "LEFT_PAREN", "Expect '(' after 'for'.")
    IN IF lp.ps.exc THEN lp ELSE
    LET initializer == Parser_for_initializer(lp.ps)
    IN IF initializer.ps.exc THEN initializer ELSE
    LET condition == Parser_for_condition(initializer.ps)
    IN IF condition.ps.exc THEN condition ELSE
    LET semi == Parser_consume(condition.ps, "SEMICOLON", "Expect ';' after for-loop condition.")
    IN IF semi.ps.exc THEN semi ELSE
    LET increment == Parser_for_increment(semi.ps)
    IN IF increment.ps.exc THEN increment ELSE
    LET rp == Parser_consume(increment.ps, "RIGHT_PAREN", "Expect ')' after for-loop clauses.")
    IN IF rp.ps.exc THEN rp ELSE
    LET parsed == Parser_nonterminal("statement", rp.ps)
    IN IF parsed.ps.exc THEN parsed ELSE
    Ret([parsed.ps EXCEPT !.loop_count = @ - 1],
        Parser_for_desugar(initializer.node, condition.node, increment.node, parsed.node))

Parser_for_statement(ps) ==
    LET r == Parser_for_statement_body([ps EXCEPT !.active_loops = @ + 1])
    IN Ret([r.ps EXCEPT !.active_loops = ps.active_loops], r.node)

Parser_break_statement(ps0) ==
    LET token == Parser_previous(ps0)
        ps == [ps0 EXCEPT !.break_seen =
                  Append(@, [loop_count |-> ps0.loop_count,
                             active_loops |-> ps0.active_loops])]
    IN IF ps.loop_count = 0
       THEN Ret(Parser_raise(ps, token, "'break' outside loop."), NoneNode)
       ELSE LET semi == Parser_consume(ps, "SEMICOLON", "Expect ';' after break statement.")
            IN IF semi.ps.exc THEN semi ELSE Ret(semi.ps, StmtBreak(token))

Parser_statement(ps) ==
    IF Parser_match(ps, {"WHILE"}) THEN Parser_nonterminal("while_statement", Parser_advance(ps))
    ELSE IF Parser_match(ps, {"FOR"}) THEN Parser_nonterminal("for_statement", Parser_advance(ps))
    ELSE IF Parser_match(ps, {"BREAK"}) THEN Parser_nonterminal("break_statement", Parser_advance(ps))
    ELSE IF Parser_match(ps, {"IF"}) THEN Parser_nonterminal("if_statement", Parser_advance(ps))
    ELSE IF Parser_match(ps, {"LEFT_BRACE"})
    THEN LET b == Parser_nonterminal("block_statement", Parser_advance(ps))
         IN IF b.ps.exc THEN b ELSE Ret(b.ps, StmtBlock(b.node))
    ELSE IF Parser_match(ps, {"PRINT"}) THEN Parser_nonterminal("print_statement", Parser_advance(ps))
    ELSE IF Parser_match(ps, {"RETURN"}) THEN Parser_nonterminal("return_statement", Parser_advance(ps))
    ELSE Parser_nonterminal("expression_statement", ps)

\* the try block of __declaration
Parser_declaration_try(ps) ==
    IF Parser_match(ps, {"FUN"}) /\ Parser_check(Parser_advance(ps), "IDENTIFIER")
    THEN Parser_nonterminal("function", Parser_advance(ps))
    ELSE \* "fun" not followed by a name: _current -= 1 puts it back
         IF Parser_match(ps, {"CLASS"}) THEN Parser_nonterminal("class_declaration", Parser_advance(ps))
         ELSE IF Parser_match(ps, {"VAR"}) THEN Parser_nonterminal("var_declaration", Parser_advance(ps))
         ELSE Parser_nonterminal("statement", ps)

Parser_declaration(ps) ==
    LET r == Parser_declaration_try(ps)
    IN IF r.ps.exc
       THEN Ret(Parser_synchronize([r.ps EXCEPT !.exc = FALSE]), NoneNode)
       ELSE r

Parser_expression(ps) == Parser_nonterminal("comma", ps)

\* the loop of __binary_left_associative over the operand already parsed
RECURSIVE Parser_binary_loop(_, _, _)
Parser_binary_loop(nonterminal, token_types, expression) ==
    IF Parser_match(expression.ps, token_types)
    THEN LET adv == Parser_advance(expression.ps)
             operator == Parser_previous(adv)
             right == Parser_nonterminal(nonterminal, adv)
         IN IF right.ps.exc THEN right
            ELSE Parser_binary_loop(nonterminal, token_types,
                    Ret(right.ps, ExprBinary(expression.node, operator, right.node)))
    ELSE expression

Parser_binary_left_associative(nonterminal, token_types, ps) ==
    LET expression == Parser_nonterminal(nonterminal, ps)
    IN IF expression.ps.exc THEN expression
       ELSE Parser_binary_loop(nonterminal, token_types, expression)

RECURSIVE Parser_logical_loop(_, _, _)
Parser_logical_loop(nonterminal, token_types, expression) ==
    IF Parser_match(expression.ps, token_types)
    THEN LET adv == Parser_advance(expression.ps)
             operator == Parser_previous(adv)
             right == Parser_nonterminal(nonterminal, adv)
         IN IF right.ps.exc THEN right
            ELSE Parser_logical_loop(nonterminal, token_types,
                    Ret(right.ps, ExprLogical(expression.node, operator, right.node)))
    ELSE expression

Parser_logical_left_associative(nonterminal, token_types, ps) ==
    LET expression == Parser_nonterminal(nonterminal, ps)
    IN IF expression.ps.exc THEN expression
       ELSE Parser_logical_loop(nonterminal, token_types, expression)

Parser_assignment(ps) ==
    LET expression == Parser_nonterminal("logic_or", ps)
    IN IF expression.ps.exc THEN expression ELSE
    IF Parser_match(expression.ps, {"EQUAL"})
    THEN LET adv == Parser_advance(expression.ps)
             equals == Parser_previous(adv)
             value == Parser_nonterminal("assignment", adv)
         IN IF value.ps.exc THEN value
            ELSE IF expression.node.t = "Variable"
            THEN Ret([value.ps EXCEPT !.next_id = @ + 1],
                     ExprAssign(value.ps.next_id, expression.node.name, value.node))
            ELSE IF expression.node.t = "Get"
            THEN Ret(value.ps,
                     ExprSet(expression.node.object, expression.node.name, value.node))
            ELSE Ret(Parser_error(value.ps, equals, "Invalid assignment target."),
                     expression.node)
    ELSE expression

Parser_ternary(ps) ==
    LET expression == Parser_nonterminal("equality", ps)
    IN IF expression.ps.exc THEN expression ELSE
    IF Parser_match(expression.ps, {"QUESTION"})
    THEN LET consequent == Parser_nonterminal("equality", Parser_advance(expression.ps))
         IN IF consequent.ps.exc THEN consequent ELSE
         LET colon == Parser_consume(consequent.ps, "COLON",
                        "Expect binary branch after '?' for a ternary expression.")
         IN IF colon.ps.exc THEN colon ELSE
         LET alternative == Parser_nonterminal("ternary", colon.ps)
         IN IF alternative.ps.exc THEN alternative ELSE
         Ret(alternative.ps,
             ExprTernary(expression.node, consequent.node, alternative.node))
    ELSE expression

invalid_binary_operators ==
    {"COMMA", "DOT", "PLUS", "SLASH", "STAR", "BANG_EQUAL", "EQUAL", "EQUAL_EQUAL",
     "GREATER", "GREATER_EQUAL", "LESS", "LESS_EQUAL"}

\* the loop of __finish_call
RECURSIVE Parser_arguments_loop(_, _)
Parser_arguments_loop(ps, arguments) ==
    LET ps1 == IF Len(arguments) >= MaxArity
               THEN Parser_error(ps, Parser_peek(ps), "Can't have more than 255 arguments.")
               ELSE ps
        argument == Parser_nonterminal("expression", ps1)
    IN IF argument.ps.exc THEN argument
       ELSE IF Parser_match(argument.ps, {"COMMA"})
       THEN Parser_arguments_loop(Parser_advance(argument.ps),
                                  Append(arguments, argument.node))
       ELSE Ret(argument.ps, Append(arguments, argument.node))

Parser_finish_call(ps, callee) ==
    LET arguments == IF ~Parser_check(ps, "RIGHT_PAREN")
                     THEN Parser_arguments_loop(ps, <<>>)
                     ELSE Ret(ps, <<>>)
    IN IF arguments.ps.exc THEN arguments ELSE
    LET paren == Parser_consume(arguments.ps, "RIGHT_PAREN", "Expect ')' after arguments.")
    IN IF paren.ps.exc THEN paren ELSE
    Ret(paren.ps, ExprCall(callee, paren.node, arguments.node))

\* the parameter loop of __lambda: whatever token comes is taken
RECURSIVE Parser_lambda_params_loop(_, _)
Parser_lambda_params_loop(ps, params) ==
    LET ps1 == IF Len(params) >= MaxArity
               THEN Parser_error(ps, Parser_peek(ps), "Can't have more than 255 arguments.")
               ELSE ps
        adv == Parser_advance(ps1)
        param == Parser_previous(adv)
    IN IF Parser_match(adv, {"COMMA"})
       THEN Parser_lambda_params_loop(Parser_advance(adv), Append(params, param))
       ELSE Ret(adv, Append(params, param))

Parser_lambda(ps) ==
    LET lp == Parser_consume(ps, "LEFT_PAREN", "Expect '(' after lambda.")
    IN IF lp.ps.exc THEN lp ELSE
    LET params == IF Parser_peek(lp.ps).type # "RIGHT_PAREN"
                  THEN Parser_lambda_params_loop(lp.ps, <<>>)
                  ELSE Ret(lp.ps, <<>>)
        rp == Parser_consume(params.ps, "RIGHT_PAREN", "Expect ')' after parameters.")
    IN IF rp.ps.exc THEN rp ELSE
    LET lb == Parser_consume(rp.ps, "LEFT_BRACE", "Expect '{' after parameters.")
    IN IF lb.ps.exc THEN lb ELSE
    LET body == Parser_nonterminal("block_statement", lb.ps)
    IN IF body.ps.exc THEN body ELSE
    Ret([body.ps EXCEPT !.next_id = @ + 1],
        ExprLambda(body.ps.next_id, params.node, body.node))

Parser_primary(ps) ==
    LET adv == Parser_advance(ps)
    IN IF Parser_match(ps, {"FALSE"}) THEN Ret(adv, ExprLiteral(Bool(FALSE)))
       ELSE IF Parser_match(ps, {"TRUE"}) THEN Ret(adv, ExprLiteral(Bool(TRUE)))
       ELSE IF Parser_match(ps, {"NIL"}) THEN Ret(adv, ExprLiteral(Nil))
       ELSE IF Parser_match(ps, {"NUMBER", "STRING"})
       THEN Ret(adv, ExprLiteral(Parser_previous(adv).literal))
       ELSE IF Parser_match(ps, {"IDENTIFIER"})
       THEN Ret([adv EXCEPT !.next_id = @ + 1], ExprVariable(adv.next_id, Parser_previous(adv)))
       ELSE IF Parser_match(ps, {"THIS"})
       THEN Ret([adv EXCEPT !.next_id = @ + 1], ExprThis(adv.next_id, Parser_previous(adv)))
       ELSE IF Parser_match(ps, {"FUN"}) THEN Parser_nonterminal("lambda", adv)
       ELSE IF Parser_match(ps, {"LEFT_PAREN"})
       THEN LET expression == Parser_nonterminal("expression", adv)
            IN IF expression.ps.exc THEN expression ELSE
            LET rp == Parser_consume(expression.ps, "RIGHT_PAREN",
                                     "Expect ')' after expression.")
            IN IF rp.ps.exc THEN rp ELSE Ret(rp.ps, ExprGrouping(expression.node))
       ELSE Ret(Parser_raise(ps, Parser_peek(ps), "Expect expression."), NoneNode)

\* the loop of __call over the expression parsed so far: a "(" is taken if
\* there is one, and the loop goes on only if a "." follows
RECURSIVE Parser_call_loop(_)
Parser_call_loop(expression) ==
    LET called == IF Parser_match(expression.ps, {"LEFT_PAREN"})
                  THEN Parser_finish_call(Parser_advance(expression.ps), expression.node)
                  ELSE expression
    IN IF called.ps.exc THEN called ELSE
    IF Parser_match(called.ps, {"DOT"})
    THEN LET name == Parser_consume(Parser_advance(called.ps), "IDENTIFIER",
                                    "Expected property name after '.'.")
         IN IF name.ps.exc THEN name
            ELSE Parser_call_loop(Ret(name.ps, ExprGet(called.node, name.node)))
    ELSE called

Parser_call(ps) ==
    LET expression == Parser_nonterminal("primary", ps)
    IN IF expression.ps.exc THEN expression ELSE Parser_call_loop(expression)

Parser_unary(ps) ==
    IF Parser_match(ps, invalid_binary_operators \cup {"MINUS", "BANG"})
    THEN LET adv == Parser_advance(ps)
             operator == Parser_previous(adv)
         IN IF operator.type \in invalid_binary_operators
            THEN Parser_nonterminal("call", Parser_error(adv, operator,
                    "Expressions beginning with '" \o operator.lexeme \o "' not allowed."))
            ELSE LET right == Parser_nonterminal("unary", adv)
                 IN IF right.ps.exc THEN right
                    ELSE Ret(right.ps, ExprUnary(operator, right.node))
    ELSE Parser_nonterminal("call", ps)

\* the loop of parse
RECURSIVE Parser_parse_loop(_, _)
Parser_parse_loop(ps, stmts) ==
    IF ~Parser_is_at_end(ps)
    THEN LET d == Parser_nonterminal("declaration", ps)
         IN IF d.node = NoneNode THEN Parser_parse_loop(d.ps, stmts)
            ELSE Parser_parse_loop(d.ps, Append(stmts, d.node))
    ELSE Ret(ps, stmts)

\* self.__<rule>(): the method called.  "x" as the nonterminal argument of
\* a helper is the method __x
Parser_nonterminal(rule, ps) ==
    CASE rule = "declaration" -> Parser_declaration(ps)
      [] rule = "statement" -> Parser_statement(ps)
      [] rule = "expression" -> Parser_expression(ps)
      [] rule = "comma" -> Parser_binary_left_associative("assignment", {}, ps)
      [] rule = "assignment" -> Parser_assignment(ps)
      [] rule = "logic_or" -> Parser_logical_left_associative("logic_and", {"OR"}, ps)
      [] rule = "logic_and" -> Parser_logical_left_associative("ternary", {"AND"}, ps)
      [] rule = "ternary" -> Parser_ternary(ps)
      [] rule = "equality" ->
            Parser_binary_left_associative("comparison", {"BANG_EQUAL", "EQUAL_EQUAL"}, ps)
      [] rule = "comparison" ->
            Parser_binary_left_associative("term",
                {"GREATER", "GREATER_EQUAL", "LESS", "LESS_EQUAL"}, ps)
      [] rule = "term" -> Parser_binary_left_associative("factor", {"MINUS", "PLUS"}, ps)
      [] rule = "factor" ->
            Parser_binary_left_associative("unary", {"SLASH", "STAR", "MODULO"}, ps)
      [] rule = "unary" -> Parser_unary(ps)
      [] rule = "lambda" -> Parser_lambda(ps)
      [] rule = "call" -> Parser_call(ps)
      [] rule = "primary" -> Parser_primary(ps)
      [] rule = "while_statement" -> Parser_while_statement(ps)
      [] rule = "for_statement" -> Parser_for_statement(ps)
      [] rule = "break_statement" -> Parser_break_statement(ps)
      [] rule = "if_statement" -> Parser_if_statement(ps)
      [] rule = "block_statement" -> Parser_block_statement(ps)
      [] rule = "print_statement" -> Parser_print_statement(ps)
      [] rule = "return_statement" -> Parser_return_statement(ps)
      [] rule = "expression_statement" -> Parser_expression_statement(ps)
      [] rule = "var_declaration" -> Parser_var_declaration(ps)
      [] rule = "class_declaration" -> Parser_class_declaration(ps)
      [] rule = "function" -> Parser_function(ps, "function")
      [] rule = "method" -> Parser_function(ps, "method")
      [] rule = "parse" -> Parser_parse_loop(ps, <<>>)

\* parse: the statements (node) and the parser after the run (ps)
Parser_parse(token_list) == Parser_nonterminal("parse", Parser(token_list))

-----------------------------------------------------------------------------
(* Resolver (src/lox/resolver.py).  A visit method takes the resolver's     *)
(* fields and returns them; locals is Interpreter._locals, which            *)
(* Interpreter.resolve writes.  A scope is a Python dict: its keys in       *)
(* insertion order and the LocalVar under each key.                         *)

LocalVar(name, is_defined, is_used) ==
    [t |-> "LocalVar", name |-> name, is_defined |-> is_defined, is_used |-> is_used]

EmptyDict == [keys |-> <<>>, at |-> <<>>]

DictHas(dict, key) == \E i \in 1..Len(dict.keys) : dict.keys[i] = key

DictIndex(dict, key) == CHOOSE i \in 1..Len(dict.keys) : dict.keys[i] = key

\* dict[key]
DictAt(dict, key) == dict.at[DictIndex(dict, key)]

\* dict.get(key): None when the key is missing
DictGet(dict, key) == IF DictHas(dict, key) THEN DictAt(dict, key) ELSE NoneNode

\* dict[key] = value
DictPut(dict, key, value) ==
    IF DictHas(dict, key)
    THEN [dict EXCEPT !.at[DictIndex(dict, key)] = value]
    ELSE [keys |-> Append(dict.keys, key), at |-> Append(dict.at, value)]

\* obj is False: true of the bool False alone, of no LocalVar and not of None
PyIsFalse(obj) == obj.t = "False"

Resolver(interpreter_locals) ==
    [scopes |-> <<>>, current_function |-> "NONE", current_class |-> "NONE",
     errors |-> <<>>, locals |-> interpreter_locals]

\* Interpreter.resolve
Interpreter_resolve(table, variable, depth) ==
    [n \in DOMAIN table \cup {variable.id} |->
        IF n = variable.id THEN depth ELSE table[n]]

Resolver_error(rs, message, token) ==
    [rs EXCEPT !.errors = Append(@, [message |-> message, token |-> token])]

Resolver_begin_scope(rs) == [rs EXCEPT !.scopes = Append(@, EmptyDict)]

Resolver_end_scope(rs) == [rs EXCEPT !.scopes = SubSeq(@, 1, Len(@) - 1)]

Resolver_peek_scope(rs) == rs.scopes[Len(rs.scopes)]

RECURSIVE Resolver_check_unused_loop(_, _)
Resolver_check_unused_loop(rs, i) ==
    LET scope == Resolver_peek_scope(rs)
    IN IF i > Len(scope.keys) THEN rs
       ELSE Resolver_check_unused_loop(
                IF ~scope.at[i].is_used
                THEN Resolver_error(rs, "Unused variable.", scope.at[i].name)
                ELSE rs,
                i + 1)

Resolver_check_unused_variables(rs) == Resolver_check_unused_loop(rs, 1)

Resolver_declare(rs, name) ==
    IF rs.scopes = <<>> THEN rs
    ELSE LET scope == Resolver_peek_scope(rs)
             rs1 == IF DictHas(scope, name.lexeme)
                    THEN Resolver_error(rs,
                            "Already a variable with this name in this scope.", name)
                    ELSE rs
         IN [rs1 EXCEPT !.scopes[Len(rs.scopes)] =
                DictPut(scope, name.lexeme, LocalVar(name, FALSE, FALSE))]

Resolver_define(rs, name) ==
    IF rs.scopes = <<>> THEN rs
    ELSE [rs EXCEPT !.scopes[Len(rs.scopes)] =
            DictPut(@, name.lexeme, [DictAt(@, name.lexeme) EXCEPT !.is_defined = TRUE])]

\* the scopes that hold the name, as Python indices (0 is the outermost)
ScopesWith(scopes, lexeme) == {i \in 0..(Len(scopes) - 1) : DictHas(scopes[i + 1], lexeme)}

Min(S) == CHOOSE x \in S : \A y \in S : x <= y

Max(S) == CHOOSE x \in S : \A y \in S : x >= y

\* the first index at which `for i, scope in enumerate(self._scopes)` finds
\* the name
Resolver_first_hit(scopes, lexeme) == Min(ScopesWith(scopes, lexeme))

Resolver_resolve_local(rs, variable, name) ==
    IF ScopesWith(rs.scopes, name.lexeme) = {} THEN rs
    ELSE LET i == Resolver_first_hit(rs.scopes, name.lexeme)
         IN [rs EXCEPT
                !.scopes[i + 1] =
                    DictPut(@, name.lexeme, [DictAt(@, name.lexeme) EXCEPT !.is_used = TRUE]),
                !.locals = Interpreter_resolve(@, variable, Len(rs.scopes) - 1 - i)]

RECURSIVE Resolver_resolve(_, _), Resolver_resolve_list(_, _),
          Resolver_resolve_function(_, _, _), Resolver_methods_loop(_, _)

\* __resolve of a list of statements or of expressions, in order
Resolver_resolve_list(rs, nodes) ==
    IF nodes = <<>> THEN rs
    ELSE Resolver_resolve_list(Resolver_resolve(rs, Head(nodes)), Tail(nodes))

RECURSIVE Resolver_params_loop(_, _)
Resolver_params_loop(rs, params) ==
    IF params = <<>> THEN rs
    ELSE Resolver_params_loop(
            Resolver_define(Resolver_declare(rs, Head(params)), Head(params)),
            Tail(params))

\* __resolve_function without the assignment that restores _current_function
Resolver_resolve_function_kept(rs, function, type_) ==
    LET rs1 == Resolver_begin_scope([rs EXCEPT !.current_function = type_])
        rs2 == Resolver_params_loop(rs1, function.params)
        rs3 == Resolver_resolve_list(rs2, function.body)
    IN Resolver_end_scope(Resolver_check_unused_variables(rs3))

Resolver_resolve_function(rs, function, type_) ==
    LET enclosing_function == rs.current_function
        rs1 == Resolver_begin_scope([rs EXCEPT !.current_function = type_])
        rs2 == Resolver_params_loop(rs1, function.params)
        rs3 == Resolver_resolve_list(rs2, function.body)
        rs4 == Resolver_end_scope(Resolver_check_unused_variables(rs3))
    IN [rs4 EXCEPT !.current_function = enclosing_function]

Resolver_methods_loop(rs, methods) ==
    IF methods = <<>> THEN rs
    ELSE Resolver_methods_loop(Resolver_resolve_function(rs, Head(methods), "METHOD"),
                               Tail(methods))

Resolver_visit_block_stmt(rs, block) ==
    Resolver_end_scope(Resolver_check_unused_variables(
        Resolver_resolve_list(Resolver_begin_scope(rs), block.statements)))

Resolver_visit_function_stmt(rs, function) ==
    Resolver_resolve_function(
        Resolver_define(Resolver_declare(rs, function.name), function.name),
        function, "FUNCTION")

Resolver_visit_class_stmt(rs, class_) ==
    LET enclosing_class == rs.current_class
        rs1 == Resolver_define(
                  Resolver_declare([rs EXCEPT !.current_class = "CLASS"], class_.name),
                  class_.name)
        rs2 == Resolver_begin_scope(rs1)
        rs3 == [rs2 EXCEPT !.scopes[Len(rs2.scopes)] =
                   DictPut(@, "this", LocalVar(class_.name, TRUE, FALSE))]
        rs4 == Resolver_end_scope(Resolver_methods_loop(rs3, class_.methods))
    IN [rs4 EXCEPT !.current_class = enclosing_class]

Resolver_visit_if_stmt(rs, if_) ==
    LET rs1 == Resolver_resolve(Resolver_resolve(rs, if_.condition), if_.then_branch)
    IN IF if_.else_branch # NoneNode THEN Resolver_resolve(rs1, if_.else_branch) ELSE rs1

Resolver_visit_return_stmt(rs, return_) ==
    LET rs1 == IF rs.current_function = "NONE"
               THEN Resolver_error(rs, "Can't return from top-level code.", return_.keyword)
               ELSE rs
    IN IF return_.value # NoneNode THEN Resolver_resolve(rs1, return_.value) ELSE rs1

Resolver_visit_var_stmt(rs, var_) ==
    LET rs1 == Resolver_declare(rs, var_.name)
        rs2 == IF var_.initializer # NoneNode THEN Resolver_resolve(rs1, var_.initializer)
               ELSE rs1
    IN Resolver_define(rs2, var_.name)

Resolver_visit_variable_expr(rs, variable) ==
    LET rs1 == IF rs.scopes # <<>>
                  /\ PyIsFalse(DictGet(Resolver_peek_scope(rs), variable.name.lexeme))
               THEN Resolver_error(rs,
                        "Can't read local variable in its own initializer.", variable.name)
               ELSE rs
    IN Resolver_resolve_local(rs1, variable, variable.name)

Resolver_visit_this_expr(rs, this_) ==
    LET rs1 == IF rs.current_class = "NONE"
               THEN Resolver_error(rs, "Can't use 'this' outside of a class.", this_.keyword)
               ELSE rs
    IN Resolver_resolve_local(rs1, this_, this_.keyword)

\* node.accept(self): the visit method of the node's class.  Python has
\* computed the resolver's fields when the visit starts; the first test
\* makes the evaluation here do the same
Resolver_resolve(rs, node) ==
    CASE ~Computed(rs) -> rs
      [] node.t = "Block" -> Resolver_visit_block_stmt(rs, node)
      [] node.t = "Expression" -> Resolver_resolve(rs, node.expression)
      [] node.t = "Function" -> Resolver_visit_function_stmt(rs, node)
      [] node.t = "Class" -> Resolver_visit_class_stmt(rs, node)
      [] node.t = "If" -> Resolver_visit_if_stmt(rs, node)
      [] node.t = "Print" -> Resolver_resolve(rs, node.expression)
      [] node.t = "Return" -> Resolver_visit_return_stmt(rs, node)
      [] node.t = "Var" -> Resolver_visit_var_stmt(rs, node)
      [] node.t = "While" ->
            Resolver_resolve(Resolver_resolve(rs, node.condition), node.body)
      [] node.t = "Break" -> rs
      [] node.t = "Variable" -> Resolver_visit_variable_expr(rs, node)
      [] node.t = "Assign" ->
            Resolver_resolve_local(Resolver_resolve(rs, node.value), node, node.name)
      [] node.t = "Binary" -> Resolver_resolve(Resolver_resolve(rs, node.left), node.right)
      [] node.t = "Call" ->
            Resolver_resolve_list(Resolver_resolve(rs, node.callee), node.arguments)
      [] node.t = "Get" -> Resolver_resolve(rs, node.object)
      [] node.t = "Set" -> Resolver_resolve(Resolver_resolve(rs, node.value), node.object)
      [] node.t = "Grouping" -> Resolver_resolve(rs, node.expression)
      [] node.t = "Literal" -> rs
      [] node.t = "This" -> Resolver_visit_this_expr(rs, node)
      [] node.t = "Logical" -> Resolver_resolve(Resolver_resolve(rs, node.left), node.right)
      [] node.t = "Unary" -> Resolver_resolve(rs, node.right)
      [] node.t = "Lambda" -> Resolver_resolve_function(rs, node, "FUNCTION")
      [] node.t = "Ternary" ->
            Resolver_resolve(
                Resolver_resolve(Resolver_resolve(rs, node.condition), node.consequent),
                node.alternative)

\* Resolver.resolve(statements) of a new Resolver for an interpreter whose
\* _locals is the given table
Resolver_run(interpreter_locals, stmts) ==
    Resolver_resolve_list(Resolver(interpreter_locals), stmts)

-----------------------------------------------------------------------------
(* Environment (src/lox/environment.py).  The Environment objects live in   *)
(* a heap, a sequence; an Environment is named by its index, and enclosing  *)
(* is 0 for None.  The operations take and return the heap.                 *)

Assigned(value, is_initialized) == [value |-> value, is_initialized |-> is_initialized]

\* Environment(enclosing=...): the heap with the new object, which is the last
Environment(heap, enclosing) ==
    Append(heap, [values |-> EmptyDict, enclosing |-> enclosing])

RuntimeException(token, message) ==
    [t |-> "RuntimeException", token |-> token, message |-> message]

\* the exceptions of Python itself
PyError(type) == [t |-> type]

\* a call that returned a value, and one that raised
Returned(value) == [exc |-> NoneNode, value |-> value]
Raised(exc) == [exc |-> exc, value |-> Nil]

Environment_define(heap, env, name, value, is_initialized) ==
    [heap EXCEPT ![env].values = DictPut(@, name, Assigned(value, is_initialized))]

\* 0 when `assert env.enclosing` fails on the way
RECURSIVE Environment_ancestor(_, _, _)
Environment_ancestor(heap, env, distance) ==
    IF distance = 0 THEN env
    ELSE IF heap[env].enclosing = 0 THEN 0
    ELSE Environment_ancestor(heap, heap[env].enclosing, distance - 1)

Environment_get_at(heap, env, distance, name) ==
    LET ancestor == Environment_ancestor(heap, env, distance)
    IN IF ancestor = 0 THEN Raised(PyError("AssertionError"))
       ELSE IF ~DictHas(heap[ancestor].values, name) THEN Raised(PyError("AssertionError"))
       ELSE Returned(DictAt(heap[ancestor].values, name).value)

RECURSIVE Environment_get_(_, _, _)
Environment_get_(heap, env, name) ==
    IF DictHas(heap[env].values, name.lexeme)
    THEN LET assigned == DictAt(heap[env].values, name.lexeme)
         IN IF assigned.is_initialized THEN Returned(assigned.value)
            ELSE Raised(RuntimeException(name,
                    "Uninitialized variable: " \o name.lexeme \o "."))
    ELSE IF heap[env].enclosing # 0 THEN Environment_get_(heap, heap[env].enclosing, name)
    ELSE Raised(RuntimeException(name, "Undefined variable: " \o name.lexeme \o "."))

\* assign and assign_at: the exception raised, if any, and the heap after
RECURSIVE Environment_assign(_, _, _, _)
Environment_assign(heap, env, name, value) ==
    IF DictHas(heap[env].values, name.lexeme)
    THEN [exc |-> NoneNode,
          heap |-> Environment_define(heap, env, name.lexeme, value, TRUE)]
    ELSE IF heap[env].enclosing # 0
    THEN Environment_assign(heap, heap[env].enclosing, name, value)
    ELSE [exc |-> RuntimeException(name, "Undefined variable: " \o name.lexeme \o "."),
          heap |-> heap]

Environment_assign_at(heap, env, distance, name, value) ==
    LET ancestor == Environment_ancestor(heap, env, distance)
    IN IF ancestor = 0 THEN [exc |-> PyError("AssertionError"), heap |-> heap]
       ELSE IF ~DictHas(heap[ancestor].values, name.lexeme)
       THEN [exc |-> PyError("KeyError"), heap |-> heap]
       ELSE [exc |-> NoneNode,
             heap |-> Environment_define(heap, ancestor, name.lexeme, value, TRUE)]

-----------------------------------------------------------------------------
(* Interpreter (src/lox/interpreter.py): values and the functions on them.  *)

LoxFunction(declaration, closure, is_initializer) ==
    [k |-> "function", declaration |-> declaration, closure |-> closure,
     is_initializer |-> is_initializer, is_static |-> FALSE, is_getter |-> FALSE]

LoxLambdaExpression(declaration, closure) ==
    [k |-> "lambda", declaration |-> declaration, closure |-> closure]

AnonymousLoxCallable(name, arity) == [k |-> "native", name |-> name, arity |-> arity]

\* a LoxInstance and a LoxClass as values: references to objects of the heap
LoxInstanceRef(ref) == [k |-> "instance", ref |-> ref]
LoxClassRef(ref) == [k |-> "class", ref |-> ref]

\* a Python list
PyList(items) == [k |-> "list", items |-> items]

\* the entries of a dict that satisfy the test, in order
RECURSIVE DictFilter(_, _, _)
DictFilter(dict, Test(_), i) ==
    IF i > Len(dict.keys) THEN EmptyDict
    ELSE LET rest == DictFilter(dict, Test, i + 1)
         IN IF Test(dict.at[i])
            THEN [keys |-> <<dict.keys[i]>> \o rest.keys, at |-> <<dict.at[i]>> \o rest.at]
            ELSE rest

\* LoxInstance.load_default_fields of an instance of the class with these
\* methods: get_methods is list(self.klass.methods), the names
LoxInstance_load_default_fields(klass, methods) ==
    DictPut(DictPut(EmptyDict, "klass", LoxClassRef(klass)),
            "methods", PyList(methods.keys))

\* an object of the heap: a LoxClass has a name and methods, every object
\* has the klass and the fields of LoxInstance
HeapObject(is_class, name, methods, klass, fields) ==
    [is_class |-> is_class, name |-> name, methods |-> methods,
     klass |-> klass, fields |-> fields]

\* LoxInstance(klass): the heap with the new instance, which is the last
LoxInstance(heap, klass) ==
    Append(heap, HeapObject(FALSE, "", EmptyDict, klass,
                            LoxInstance_load_default_fields(klass, heap[klass].methods)))

IsStatic(function) == function.is_static
IsNotStatic(function) == ~function.is_static

\* LoxClass(name, methods): the heap with the class and, after it, its
\* metaclass, which is its own klass
LoxClass(heap, name, methods) ==
    LET metaclass == Len(heap) + 2
        instance_methods == DictFilter(methods, IsNotStatic, 1)
        static_methods == DictFilter(methods, IsStatic, 1)
        default_fields == LoxInstance_load_default_fields(metaclass, static_methods)
    IN heap \o <<HeapObject(TRUE, name, instance_methods, metaclass, default_fields),
                 HeapObject(TRUE, "Meta" \o name, static_methods, metaclass, default_fields)>>

\* LoxClass.find_method
LoxClass_find_method(heap, klass, name) == DictGet(heap[klass].methods, name)

\* isinstance(obj, LoxInstance)
IsLoxInstance(obj) == obj.k \in {"instance", "class"}

\* isinstance(obj, LoxCallable)
IsLoxCallable(obj) == obj.k \in {"function", "lambda", "native", "class"}

\* function.arity()
Arity(function) ==
    CASE function.k \in {"function", "lambda"} -> Len(function.declaration.params)
      [] function.k = "native" -> function.arity
      [] function.k = "class" ->
            IF LoxClass_find_method(instances, function.ref, "init") # NoneNode
            THEN Len(LoxClass_find_method(instances, function.ref, "init").declaration.params)
            ELSE 0

IsNumber(obj) == obj.k = "num"

Interpreter_is_truthy(obj) ==
    IF obj.k = "nil" THEN FALSE
    ELSE IF obj.k = "bool" THEN obj.b
    ELSE TRUE

\* Python's left == right.  bool is a subclass of int, so True == 1.0; a
\* LoxFunction is a dataclass without fields, so any two are equal; a
\* LoxLambdaExpression is a dataclass of its declaration and closure (two
\* lambdas of one expression closed over different environments are compared
\* by no program of the model); instances and classes are equal to
\* themselves alone
PyEquals(left, right) ==
    CASE left.k = "bool" /\ right.k = "num" ->
            right.frac = "" /\ right.n = (IF left.b THEN 1 ELSE 0)
      [] left.k = "num" /\ right.k = "bool" ->
            left.frac = "" /\ left.n = (IF right.b THEN 1 ELSE 0)
      [] left.k = right.k
         /\ left.k \in {"nil", "bool", "num", "str", "native", "instance", "class", "list"} ->
            left = right
      [] left.k = "function" /\ right.k = "function" -> TRUE
      [] left.k = "lambda" /\ right.k = "lambda"
         /\ (left.declaration.id # right.declaration.id \/ left.closure = right.closure) ->
            left.declaration.id = right.declaration.id
      [] left.k # right.k /\ {left.k, right.k} # {"bool", "num"} -> FALSE

Interpreter_is_equal(left, right) ==
    IF left.k = "nil" /\ right.k = "nil" THEN TRUE
    ELSE IF left.k = "nil" THEN FALSE
    ELSE PyEquals(left, right)

DigitChar(d) ==
    CASE d = 0 -> "0" [] d = 1 -> "1" [] d = 2 -> "2" [] d = 3 -> "3" [] d = 4 -> "4"
      [] d = 5 -> "5" [] d = 6 -> "6" [] d = 7 -> "7" [] d = 8 -> "8" [] d = 9 -> "9"

RECURSIVE NatToStr(_)
NatToStr(n) == IF n < 10 THEN DigitChar(n) ELSE NatToStr(n \div 10) \o DigitChar(n % 10)

\* str(obj) of a float
FloatToStr(obj) ==
    (IF obj.n < 0 THEN "-" \o NatToStr(0 - obj.n) ELSE NatToStr(obj.n))
    \o "." \o (IF obj.frac = "" THEN "0" ELSE obj.frac)

\* str of a list of str: the repr of each item
RECURSIVE PyListItems(_)
PyListItems(items) ==
    IF items = <<>> THEN ""
    ELSE "'" \o Head(items) \o "'"
         \o (IF Tail(items) = <<>> THEN "" ELSE ", " \o PyListItems(Tail(items)))

PyListStr(items) == "[" \o PyListItems(items) \o "]"

\* str(obj)
PyStr(obj) ==
    CASE obj.k = "nil" -> "None"
      [] obj.k = "bool" -> IF obj.b THEN "True" ELSE "False"
      [] obj.k = "num" -> FloatToStr(obj)
      [] obj.k = "str" -> obj.s
      [] obj.k = "function" -> "<fn " \o obj.declaration.name.lexeme \o ">"
      [] obj.k = "lambda" -> "<fn lambda>"
      [] obj.k = "native" -> "<native fn>"
      [] obj.k = "class" -> "<class> " \o instances[obj.ref].name
      [] obj.k = "instance" -> "<" \o instances[instances[obj.ref].klass].name \o " instance>"
      [] obj.k = "list" -> PyListStr(obj.items)

Interpreter_stringify(obj) ==
    IF PyStr(obj) = "None" THEN "nil"
    ELSE IF obj.k = "num" /\ obj.frac = "" THEN (IF obj.n < 0 THEN "-" \o NatToStr(0 - obj.n) ELSE NatToStr(obj.n))
    ELSE IF obj.k = "bool" THEN (IF obj.b THEN "true" ELSE "false")
    ELSE PyStr(obj)

\* visit_unary_expr once the operand is evaluated
Interpreter_unary(operator, right) ==
    CASE operator.type = "MINUS" ->
            IF IsNumber(right) /\ right.frac = "" THEN Returned(Num(0 - right.n))
            ELSE Raised(RuntimeException(operator, "Operand must be a number."))
      [] operator.type = "BANG" -> Returned(Bool(~Interpreter_is_truthy(right)))

\* __check_number_operands and then the float operation; the operands of
\* the model's programs are whole numbers
Interpreter_arithmetic(operator, left, right) ==
    IF ~(IsNumber(left) /\ IsNumber(right))
    THEN Raised(RuntimeException(operator, "Operands must be numbers."))
    ELSE CASE operator.type = "MINUS" -> Returned(Num(left.n - right.n))
           [] operator.type = "STAR" -> Returned(Num(left.n * right.n))
           [] operator.type = "SLASH" /\ right.n = 0 -> Raised(PyError("ZeroDivisionError"))
           [] operator.type = "SLASH" /\ right.n # 0 /\ left.n % right.n = 0 ->
                Returned(Num(left.n \div right.n))
           [] operator.type = "MODULO" /\ right.n = 0 -> Raised(PyError("ZeroDivisionError"))
           [] operator.type = "MODULO" /\ right.n > 0 -> Returned(Num(left.n % right.n))
           [] operator.type = "GREATER" -> Returned(Bool(left.n > right.n))
           [] operator.type = "GREATER_EQUAL" -> Returned(Bool(left.n >= right.n))
           [] operator.type = "LESS" -> Returned(Bool(left.n < right.n))
           [] operator.type = "LESS_EQUAL" -> Returned(Bool(left.n <= right.n))

\* visit_binary_expr once both operands are evaluated
Interpreter_binary(operator, left, right) ==
    CASE operator.type = "PLUS" ->
            IF IsNumber(left) /\ IsNumber(right) THEN Returned(Num(left.n + right.n))
            ELSE IF left.k = "str" /\ right.k = "str" THEN Returned(Str(left.s \o right.s))
            ELSE IF (IsNumber(left) /\ right.k = "str") \/ (left.k = "str" /\ IsNumber(right))
            THEN Returned(Str(Interpreter_stringify(left) \o Interpreter_stringify(right)))
            ELSE Raised(RuntimeException(operator,
                    "Operands cannot be concatenated or added."))
      [] operator.type = "EQUAL_EQUAL" -> Returned(Bool(Interpreter_is_equal(left, right)))
      [] operator.type = "BANG_EQUAL" -> Returned(Bool(~Interpreter_is_equal(left, right)))
      [] operator.type = "COMMA" -> Returned(right)
      [] operator.type \in {"MINUS", "STAR", "SLASH", "MODULO", "GREATER",
                            "GREATER_EQUAL", "LESS", "LESS_EQUAL"} ->
            Interpreter_arithmetic(operator, left, right)

-----------------------------------------------------------------------------
(* The interpreter as a state machine.  ctl says what happens next:         *)
(*   exec  - a statement is about to be executed (statement.accept)         *)
(*   eval  - an expression is about to be evaluated (expression.accept)     *)
(*   value - an evaluation has returned a value to the frame on top         *)
(*   done  - a statement has returned to the frame on top                   *)
(*   invoke - visit_call_expr has evaluated the callee and the arguments    *)
(*   raise - an exception is on its way up the stack                        *)
(*   idle  - no interpreter method is running                               *)

Exec(node) == [op |-> "exec", node |-> node]
Eval(node) == [op |-> "eval", node |-> node]
Value(value) == [op |-> "value", value |-> value]
Done == [op |-> "done"]
Invoke == [op |-> "invoke"]
Raise(exc) == [op |-> "raise", exc |-> exc]
Idle == [op |-> "idle"]

\* the outcome of a call that returns a value or raises
Outcome(r) == IF r.exc = NoneNode THEN Value(r.value) ELSE Raise(r.exc)

Top == kont[Len(kont)]
Popped == SubSeq(kont, 1, Len(kont) - 1)

Executing(t) == ctl.op = "exec" /\ ctl.node.t = t
Evaluating(t) == ctl.op = "eval" /\ ctl.node.t = t
Resuming(f) == ctl.op = "value" /\ kont # <<>> /\ Top.f = f
Completed(f) == ctl.op = "done" /\ kont # <<>> /\ Top.f = f
Raising(f) == ctl.op = "raise" /\ kont # <<>> /\ Top.f = f

\* the index of the global environment, Interpreter.globals
globals == 1

driverVars == <<source, phase, tokens, statements, had_error, had_runtime_error,
                reported, locals>>
pureVars == <<input, result, instances>>

-----------------------------------------------------------------------------
(* The driver (src/lox/lox.py).                                             *)

\* Lox.__report with the arguments lexical_error gives it
LexicalReport(error) ==
    [type |-> "Lexical", line |-> error.line, where |-> "", message |-> error.message]

\* Lox.__report with the arguments parse_error gives it
ParseReport(error) ==
    [type |-> "Parse", line |-> error.token.line,
     where |-> IF error.token.type = "EOF" THEN " at end"
               ELSE " at " \o error.token.lexeme,
     message |-> error.message]

\* what Lox.runtime_error prints
RuntimeReport(error) ==
    [type |-> "Runtime", line |-> error.token.line, where |-> "",
     message |-> error.message]

Reports(Report(_), errors) == [i \in 1..Len(errors) |-> Report(errors[i])]

\* __run: scanner.scan_tokens() with lexical_error as the callback
Lox_run_scan ==
    /\ phase = "start"
    /\ LET scanner == ScanTokens(source)
       IN /\ tokens' = scanner.tokens
          /\ reported' = reported \o Reports(LexicalReport, scanner.errors)
          /\ had_error' = (had_error \/ scanner.errors # <<>>)
    /\ phase' = "scanned"
    /\ UNCHANGED <<source, statements, had_runtime_error, locals, envs, environment,
                   ctl, kont, output, input, result, instances>>

\* __run: parser.parse() with parse_error as the callback
Lox_run_parse ==
    /\ phase = "scanned"
    /\ LET parser == Parser_parse(tokens)
       IN /\ statements' = parser.node
          /\ reported' = reported \o Reports(ParseReport, parser.ps.errors)
          /\ had_error' = (had_error \/ parser.ps.errors # <<>>)
    /\ phase' = "parsed"
    /\ UNCHANGED <<source, tokens, had_runtime_error, locals, envs, environment,
                   ctl, kont, output, input, result, instances>>

\* __run: `if self._had_error: return`
Lox_run_return ==
    /\ phase = "parsed"
    /\ had_error
    /\ phase' = "done"
    /\ UNCHANGED <<source, tokens, statements, had_error, had_runtime_error, reported,
                   locals, envs, environment, ctl, kont, output, input, result, instances>>

\* the call of Interpreter.interpret: its frame with the statements to run
InterpretFrame == [f |-> "interpret", rest |-> statements]

\* __run without `if self._had_error: return`
Lox_run_interpret_always ==
    /\ phase = "parsed"
    /\ phase' = "running"
    /\ kont' = <<InterpretFrame>>
    /\ ctl' = Done
    /\ UNCHANGED <<source, tokens, statements, had_error, had_runtime_error, reported,
                   locals, envs, environment, output, input, result, instances>>

\* __run: self._interpreter.interpret(statements)
Lox_run_interpret ==
    /\ phase = "parsed"
    /\ ~had_error
    /\ phase' = "running"
    /\ kont' = <<InterpretFrame>>
    /\ ctl' = Done
    /\ UNCHANGED <<source, tokens, statements, had_error, had_runtime_error, reported,
                   locals, envs, environment, output, input, result, instances>>

\* an exception that nothing caught leaves __run
Lox_run_crash ==
    /\ phase = "running"
    /\ ctl.op = "raise"
    /\ kont = <<>>
    /\ phase' = "crashed"
    /\ UNCHANGED <<source, tokens, statements, had_error, had_runtime_error, reported,
                   locals, envs, environment, ctl, kont, output, input, result, instances>>

-----------------------------------------------------------------------------
(* Interpreter.interpret and the statements.                                *)

\* interpret: the for loop takes the next statement, or the method returns
Interpreter_interpret_next ==
    /\ Completed("interpret")
    /\ IF Top.rest # <<>>
       THEN /\ ctl' = Exec(Head(Top.rest))
            /\ kont' = [kont EXCEPT ![Len(kont)].rest = Tail(@)]
            /\ phase' = phase
       ELSE /\ ctl' = Idle
            /\ kont' = Popped
            /\ phase' = "done"
    /\ UNCHANGED <<source, tokens, statements, had_error, had_runtime_error, reported,
                   locals, envs, environment, output, input, result, instances>>

\* an interpret that reports the error and goes on with the next statement
Interpreter_interpret_except_continue ==
    /\ Raising("interpret")
    /\ ctl.exc.t = "RuntimeException"
    /\ reported' = Append(reported, RuntimeReport(ctl.exc))
    /\ had_runtime_error' = TRUE
    /\ ctl' = Done
    /\ UNCHANGED <<source, phase, tokens, statements, had_error, locals, envs,
                   environment, kont, output, input, result, instances>>

\* interpret: `except RuntimeException as error: self._error_callback(error)`,
\* the callback being Lox.runtime_error
Interpreter_interpret_except ==
    /\ Raising("interpret")
    /\ ctl.exc.t = "RuntimeException"
    /\ reported' = Append(reported, RuntimeReport(ctl.exc))
    /\ had_runtime_error' = TRUE
    /\ ctl' = Idle
    /\ kont' = Popped
    /\ phase' = "done"
    /\ UNCHANGED <<source, tokens, statements, had_error, locals, envs, environment,
                   output, input, result, instances>>

\* the exceptions a frame catches, or cleans up after
Handles(frame, exc) ==
    \/ frame.f = "block"
    \/ frame.f = "while" /\ exc.t = "Break"
    \/ frame.f \in {"function_call", "lambda_call"} /\ exc.t = "Return"
    \/ frame.f = "interpret" /\ exc.t = "RuntimeException"

\* an exception leaves a method that has no handler for it
Propagate ==
    /\ ctl.op = "raise"
    /\ kont # <<>>
    /\ ~Handles(Top, ctl.exc)
    /\ kont' = Popped
    /\ UNCHANGED <<driverVars, envs, environment, ctl, output, pureVars>>

Interpreter_visit_var_stmt ==
    /\ Executing("Var")
    /\ IF ctl.node.initializer # NoneNode
       THEN /\ kont' = Append(kont, [f |-> "var", stmt |-> ctl.node])
            /\ ctl' = Eval(ctl.node.initializer)
            /\ envs' = envs
       ELSE /\ envs' = Environment_define(envs, environment, ctl.node.name.lexeme, Nil,
                                          ctl.node.is_initialized)
            /\ ctl' = Done
            /\ kont' = kont
    /\ UNCHANGED <<driverVars, environment, output, pureVars>>

\* visit_var_stmt with the initializer evaluated
Interpreter_visit_var_stmt_define ==
    /\ Resuming("var")
    /\ envs' = Environment_define(envs, environment, Top.stmt.name.lexeme, ctl.value,
                                  Top.stmt.is_initialized)
    /\ ctl' = Done
    /\ kont' = Popped
    /\ UNCHANGED <<driverVars, environment, output, pureVars>>

Interpreter_visit_while_stmt ==
    /\ Executing("While")
    /\ kont' = Append(kont, [f |-> "while", stmt |-> ctl.node])
    /\ ctl' = Eval(ctl.node.condition)
    /\ UNCHANGED <<driverVars, envs, environment, output, pureVars>>

\* visit_while_stmt with the condition evaluated
Interpreter_visit_while_stmt_test ==
    /\ Resuming("while")
    /\ IF Interpreter_is_truthy(ctl.value)
       THEN /\ ctl' = Exec(Top.stmt.body)
            /\ kont' = kont
       ELSE /\ ctl' = Done
            /\ kont' = Popped
    /\ UNCHANGED <<driverVars, envs, environment, output, pureVars>>

\* visit_while_stmt with the body executed
Interpreter_visit_while_stmt_again ==
    /\ Completed("while")
    /\ ctl' = Eval(Top.stmt.condition)
    /\ UNCHANGED <<driverVars, envs, environment, kont, output, pureVars>>

\* visit_while_stmt: `except Break: return`
Interpreter_visit_while_stmt_except ==
    /\ Raising("while")
    /\ ctl.exc.t = "Break"
    /\ ctl' = Done
    /\ kont' = Popped
    /\ UNCHANGED <<driverVars, envs, environment, output, pureVars>>

Interpreter_visit_break_stmt ==
    /\ Executing("Break")
    /\ ctl' = Raise(PyError("Break"))
    /\ UNCHANGED <<driverVars, envs, environment, kont, output, pureVars>>

Interpreter_visit_function_stmt ==
    /\ Executing("Function")
    /\ envs' = Environment_define(envs, environment, ctl.node.name.lexeme,
                                  LoxFunction(ctl.node, environment, FALSE), TRUE)
    /\ ctl' = Done
    /\ UNCHANGED <<driverVars, environment, kont, output, pureVars>>

Interpreter_visit_if_stmt ==
    /\ Executing("If")
    /\ kont' = Append(kont, [f |-> "if", stmt |-> ctl.node])
    /\ ctl' = Eval(ctl.node.condition)
    /\ UNCHANGED <<driverVars, envs, environment, output, pureVars>>

\* visit_if_stmt with the condition evaluated
Interpreter_visit_if_stmt_branch ==
    /\ Resuming("if")
    /\ ctl' = IF Interpreter_is_truthy(ctl.value) THEN Exec(Top.stmt.then_branch)
              ELSE IF Top.stmt.else_branch # NoneNode THEN Exec(Top.stmt.else_branch)
              ELSE Done
    /\ kont' = Popped
    /\ UNCHANGED <<driverVars, envs, environment, output, pureVars>>

\* execute_block as it starts: the frame, with previous_environment
BlockFrame(block_statements) ==
    [f |-> "block", rest |-> block_statements, previous_environment |-> environment]

\* visit_block_stmt, and execute_block up to its loop
Interpreter_visit_block_stmt ==
    /\ Executing("Block")
    /\ envs' = Environment(envs, environment)
    /\ kont' = Append(kont, BlockFrame(ctl.node.statements))
    /\ environment' = Len(envs) + 1
    /\ ctl' = Done
    /\ UNCHANGED <<driverVars, output, pureVars>>

\* execute_block: the for loop takes the next statement
Interpreter_execute_block_next ==
    /\ Completed("block")
    /\ Top.rest # <<>>
    /\ ctl' = Exec(Head(Top.rest))
    /\ kont' = [kont EXCEPT ![Len(kont)].rest = Tail(@)]
    /\ UNCHANGED <<driverVars, envs, environment, output, pureVars>>

\* execute_block: the loop is over, `finally` runs and the method returns
Interpreter_execute_block_return ==
    /\ Completed("block")
    /\ Top.rest = <<>>
    /\ environment' = Top.previous_environment
    /\ kont' = Popped
    /\ UNCHANGED <<driverVars, envs, ctl, output, pureVars>>

\* execute_block without the `finally`: an exception passes and the
\* environment of the block stays
Interpreter_execute_block_no_finally ==
    /\ Raising("block")
    /\ kont' = Popped
    /\ UNCHANGED <<driverVars, envs, environment, ctl, output, pureVars>>

\* execute_block: `finally` runs while an exception passes
Interpreter_execute_block_finally ==
    /\ Raising("block")
    /\ environment' = Top.previous_environment
    /\ kont' = Popped
    /\ UNCHANGED <<driverVars, envs, ctl, output, pureVars>>

Interpreter_visit_print_stmt ==
    /\ Executing("Print")
    /\ kont' = Append(kont, [f |-> "print"])
    /\ ctl' = Eval(ctl.node.expression)
    /\ UNCHANGED <<driverVars, envs, environment, output, pureVars>>

\* visit_print_stmt with the expression evaluated
Interpreter_visit_print_stmt_print ==
    /\ Resuming("print")
    /\ output' = Append(output, Interpreter_stringify(ctl.value))
    /\ ctl' = Done
    /\ kont' = Popped
    /\ UNCHANGED <<driverVars, envs, environment, pureVars>>

Interpreter_visit_return_stmt ==
    /\ Executing("Return")
    /\ IF ctl.node.value # NoneNode
       THEN /\ kont' = Append(kont, [f |-> "return"])
            /\ ctl' = Eval(ctl.node.value)
       ELSE /\ ctl' = Raise([t |-> "Return", value |-> Nil])
            /\ kont' = kont
    /\ UNCHANGED <<driverVars, envs, environment, output, pureVars>>

\* visit_return_stmt with the value evaluated
Interpreter_visit_return_stmt_raise ==
    /\ Resuming("return")
    /\ ctl' = Raise([t |-> "Return", value |-> ctl.value])
    /\ kont' = Popped
    /\ UNCHANGED <<driverVars, envs, environment, output, pureVars>>

Interpreter_visit_expression_stmt ==
    /\ Executing("Expression")
    /\ kont' = Append(kont, [f |-> "expression"])
    /\ ctl' = Eval(ctl.node.expression)
    /\ UNCHANGED <<driverVars, envs, environment, output, pureVars>>

\* Interpreter._is_run_prompt: __run_prompt sets it around __run, and a line
\* of the prompt is run with the lines still to be read in `input`
Interpreter_is_run_prompt == input # <<>>

\* visit_expression_stmt with the expression evaluated: at the prompt the
\* value is printed
Interpreter_visit_expression_stmt_return ==
    /\ Resuming("expression")
    /\ output' = IF Interpreter_is_run_prompt
                 THEN Append(output, Interpreter_stringify(ctl.value))
                 ELSE output
    /\ ctl' = Done
    /\ kont' = Popped
    /\ UNCHANGED <<driverVars, envs, environment, pureVars>>

-----------------------------------------------------------------------------
(* The expressions.                                                         *)

Interpreter_visit_literal_expr ==
    /\ Evaluating("Literal")
    /\ ctl' = Value(ctl.node.value)
    /\ UNCHANGED <<driverVars, envs, environment, kont, output, pureVars>>

\* the frame of visit_grouping_expr adds nothing to that of the inner
\* expression: the evaluation goes on with the inner expression
Interpreter_visit_grouping_expr ==
    /\ Evaluating("Grouping")
    /\ ctl' = Eval(ctl.node.expression)
    /\ UNCHANGED <<driverVars, envs, environment, kont, output, pureVars>>

\* self._locals.get(variable): NoneNode for None
LocalsGet(variable) ==
    IF variable.id \in DOMAIN locals THEN [t |-> "int", n |-> locals[variable.id]]
    ELSE NoneNode

Interpreter_look_up_variable(name, variable) ==
    LET distance == LocalsGet(variable)
    IN IF distance = NoneNode THEN Environment_get_(envs, globals, name)
       ELSE Environment_get_at(envs, environment, distance.n, name.lexeme)

Interpreter_visit_variable_expr ==
    /\ Evaluating("Variable")
    /\ ctl' = Outcome(Interpreter_look_up_variable(ctl.node.name, ctl.node))
    /\ UNCHANGED <<driverVars, envs, environment, kont, output, pureVars>>

Interpreter_visit_lambda_expr ==
    /\ Evaluating("Lambda")
    /\ ctl' = Value(LoxLambdaExpression(ctl.node, environment))
    /\ UNCHANGED <<driverVars, envs, environment, kont, output, pureVars>>

Interpreter_visit_assign_expr ==
    /\ Evaluating("Assign")
    /\ kont' = Append(kont, [f |-> "assign", expr |-> ctl.node])
    /\ ctl' = Eval(ctl.node.value)
    /\ UNCHANGED <<driverVars, envs, environment, output, pureVars>>

\* visit_assign_expr with the value evaluated
Interpreter_visit_assign_expr_assign ==
    /\ Resuming("assign")
    /\ LET distance == LocalsGet(Top.expr)
           assigned == IF distance # NoneNode
                       THEN Environment_assign_at(envs, environment, distance.n,
                                                  Top.expr.name, ctl.value)
                       ELSE Environment_assign(envs, globals, Top.expr.name, ctl.value)
       IN /\ envs' = assigned.heap
          /\ ctl' = IF assigned.exc = NoneNode THEN ctl ELSE Raise(assigned.exc)
    /\ kont' = Popped
    /\ UNCHANGED <<driverVars, environment, output, pureVars>>

Interpreter_visit_logical_expr ==
    /\ Evaluating("Logical")
    /\ kont' = Append(kont, [f |-> "logical", expr |-> ctl.node])
    /\ ctl' = Eval(ctl.node.left)
    /\ UNCHANGED <<driverVars, envs, environment, output, pureVars>>

\* visit_logical_expr without the two early returns
Interpreter_visit_logical_expr_right_always ==
    /\ Resuming("logical")
    /\ ctl' = Eval(Top.expr.right)
    /\ kont' = Popped
    /\ UNCHANGED <<driverVars, envs, environment, output, pureVars>>

\* visit_logical_expr with the left operand evaluated
Interpreter_visit_logical_expr_right ==
    /\ Resuming("logical")
    /\ ctl' = IF Top.expr.operator.type = "OR" /\ Interpreter_is_truthy(ctl.value) THEN ctl
              ELSE IF Top.expr.operator.type = "AND" /\ ~Interpreter_is_truthy(ctl.value)
              THEN ctl
              ELSE Eval(Top.expr.right)
    /\ kont' = Popped
    /\ UNCHANGED <<driverVars, envs, environment, output, pureVars>>

Interpreter_visit_ternary_expr ==
    /\ Evaluating("Ternary")
    /\ kont' = Append(kont, [f |-> "ternary", expr |-> ctl.node])
    /\ ctl' = Eval(ctl.node.condition)
    /\ UNCHANGED <<driverVars, envs, environment, output, pureVars>>

\* visit_ternary_expr with the condition evaluated
Interpreter_visit_ternary_expr_branch ==
    /\ Resuming("ternary")
    /\ ctl' = IF Interpreter_is_truthy(ctl.value) THEN Eval(Top.expr.consequent)
              ELSE Eval(Top.expr.alternative)
    /\ kont' = Popped
    /\ UNCHANGED <<driverVars, envs, environment, output, pureVars>>

Interpreter_visit_binary_expr ==
    /\ Evaluating("Binary")
    /\ kont' = Append(kont, [f |-> "binary", expr |-> ctl.node, at |-> "left", left |-> Nil])
    /\ ctl' = Eval(ctl.node.left)
    /\ UNCHANGED <<driverVars, envs, environment, output, pureVars>>

\* visit_binary_expr that checks the left operand before it evaluates the right
Interpreter_visit_binary_expr_right_checked ==
    /\ Resuming("binary")
    /\ Top.at = "left"
    /\ IF Top.expr.operator.type \in {"PLUS", "EQUAL_EQUAL", "BANG_EQUAL", "COMMA"}
          \/ IsNumber(ctl.value)
       THEN /\ kont' = [kont EXCEPT ![Len(kont)].at = "right", ![Len(kont)].left = ctl.value]
            /\ ctl' = Eval(Top.expr.right)
       ELSE /\ kont' = Popped
            /\ ctl' = Raise(RuntimeException(Top.expr.operator, "Operands must be numbers."))
    /\ UNCHANGED <<driverVars, envs, environment, output, pureVars>>

\* visit_binary_expr with the left operand evaluated
Interpreter_visit_binary_expr_right ==
    /\ Resuming("binary")
    /\ Top.at = "left"
    /\ kont' = [kont EXCEPT ![Len(kont)].at = "right", ![Len(kont)].left = ctl.value]
    /\ ctl' = Eval(Top.expr.right)
    /\ UNCHANGED <<driverVars, envs, environment, output, pureVars>>

\* visit_binary_expr with both operands evaluated
Interpreter_visit_binary_expr_match ==
    /\ Resuming("binary")
    /\ Top.at = "right"
    /\ ctl' = Outcome(IF Top.expr.operator.type \in
                            {"PLUS", "EQUAL_EQUAL", "BANG_EQUAL", "COMMA"}
                      THEN Interpreter_binary(Top.expr.operator, Top.left, ctl.value)
                      ELSE Interpreter_arithmetic(Top.expr.operator, Top.left, ctl.value))
    /\ kont' = Popped
    /\ UNCHANGED <<driverVars, envs, environment, output, pureVars>>

Interpreter_visit_unary_expr ==
    /\ Evaluating("Unary")
    /\ kont' = Append(kont, [f |-> "unary", expr |-> ctl.node])
    /\ ctl' = Eval(ctl.node.right)
    /\ UNCHANGED <<driverVars, envs, environment, output, pureVars>>

\* visit_unary_expr with the operand evaluated
Interpreter_visit_unary_expr_match ==
    /\ Resuming("unary")
    /\ ctl' = Outcome(Interpreter_unary(Top.expr.operator, ctl.value))
    /\ kont' = Popped
    /\ UNCHANGED <<driverVars, envs, environment, output, pureVars>>

-----------------------------------------------------------------------------
(* Calls.                                                                   *)

Interpreter_visit_call_expr ==
    /\ Evaluating("Call")
    /\ kont' = Append(kont, [f |-> "callexpr", expr |-> ctl.node, at |-> "callee",
                             callee |-> Nil, arguments |-> <<>>,
                             rest |-> ctl.node.arguments])
    /\ ctl' = Eval(ctl.node.callee)
    /\ UNCHANGED <<driverVars, envs, environment, output, pureVars>>

\* visit_call_expr with the callee or one more argument evaluated
Interpreter_visit_call_expr_evaluated ==
    /\ Resuming("callexpr")
    /\ LET frame == IF Top.at = "callee"
                    THEN [Top EXCEPT !.callee = ctl.value, !.at = "arguments"]
                    ELSE [Top EXCEPT !.arguments = Append(@, ctl.value)]
       IN IF frame.rest # <<>>
          THEN /\ ctl' = Eval(Head(frame.rest))
               /\ kont' = Append(Popped, [frame EXCEPT !.rest = Tail(@)])
          ELSE /\ ctl' = Invoke
               /\ kont' = Append(Popped, frame)
    /\ UNCHANGED <<driverVars, envs, environment, output, pureVars>>

\* visit_call_expr: the checks that stand before function.call
CallChecked ==
    /\ ctl.op = "invoke"
    /\ IsLoxCallable(Top.callee)
    /\ Len(Top.arguments) = Arity(Top.callee)

\* visit_call_expr that makes the environment of the call before its checks
Interpreter_visit_call_expr_raise_after_environment ==
    /\ ctl.op = "invoke"
    /\ ~CallChecked
    /\ envs' = Environment(envs, globals)
    /\ ctl' = Raise(RuntimeException(Top.expr.paren, "Can only call functions and methods."))
    /\ kont' = Popped
    /\ UNCHANGED <<driverVars, environment, output, pureVars>>

\* visit_call_expr: one of the checks fails
Interpreter_visit_call_expr_raise ==
    /\ ctl.op = "invoke"
    /\ ~CallChecked
    /\ ctl' = Raise(RuntimeException(Top.expr.paren,
                IF ~IsLoxCallable(Top.callee) THEN "Can only call functions and methods."
                ELSE "Expected " \o NatToStr(Arity(Top.callee)) \o " arguments but got "
                     \o NatToStr(Len(Top.arguments)) \o "."))
    /\ kont' = Popped
    /\ UNCHANGED <<driverVars, envs, environment, output, pureVars>>

\* the loop of call that defines the parameters in the environment of the call
RECURSIVE DefineParams(_, _, _, _, _)
DefineParams(heap, env, params, arguments, idx) ==
    IF idx > Len(params) THEN heap
    ELSE DefineParams(Environment_define(heap, env, params[idx].lexeme, arguments[idx], TRUE),
                      env, params, arguments, idx + 1)

\* a call environment that extends the environment of the caller
LoxFunction_call_environment_of_caller(function) == Environment(envs, environment)

\* LoxFunction.call, first line: the heap with the environment of the call
LoxFunction_call_environment(function) == Environment(envs, function.closure)

\* LoxFunction.call up to the loop of execute_block
LoxFunction_call ==
    /\ CallChecked
    /\ Top.callee.k = "function"
    /\ LET function == Top.callee
           heap == LoxFunction_call_environment(function)
       IN /\ envs' = DefineParams(heap, Len(heap), function.declaration.params,
                                  Top.arguments, 1)
          /\ kont' = Popped \o <<[f |-> "function_call", function |-> function,
                                  environment |-> Len(heap)],
                                 BlockFrame(function.declaration.body)>>
          /\ environment' = Len(heap)
    /\ ctl' = Done
    /\ UNCHANGED <<driverVars, output, pureVars>>

\* LoxFunction.call: execute_block has returned
LoxFunction_call_return ==
    /\ Completed("function_call")
    /\ ctl' = IF Top.function.is_initializer
              THEN Outcome(Environment_get_at(envs, Top.function.closure, 0, "this"))
              ELSE Value(Nil)
    /\ kont' = Popped
    /\ UNCHANGED <<driverVars, envs, environment, output, pureVars>>

\* LoxFunction.call: `except Return as return_`
LoxFunction_call_except ==
    /\ Raising("function_call")
    /\ ctl.exc.t = "Return"
    /\ ctl' = IF Top.function.is_initializer
              THEN Outcome(Environment_get_at(envs, Top.function.closure, 0, "this"))
              ELSE Value(ctl.exc.value)
    /\ kont' = Popped
    /\ UNCHANGED <<driverVars, envs, environment, output, pureVars>>

\* LoxLambdaExpression.call, first line
LoxLambdaExpression_call_environment(function) == Environment(envs, function.closure)

\* LoxLambdaExpression.call up to the loop of execute_block
LoxLambdaExpression_call ==
    /\ CallChecked
    /\ Top.callee.k = "lambda"
    /\ LET function == Top.callee
           heap == LoxLambdaExpression_call_environment(function)
       IN /\ envs' = DefineParams(heap, Len(heap), function.declaration.params,
                                  Top.arguments, 1)
          /\ kont' = Popped \o <<[f |-> "lambda_call", function |-> function,
                                  environment |-> Len(heap)],
                                 BlockFrame(function.declaration.body)>>
          /\ environment' = Len(heap)
    /\ ctl' = Done
    /\ UNCHANGED <<driverVars, output, pureVars>>

\* LoxLambdaExpression.call: execute_block has returned
LoxLambdaExpression_call_return ==
    /\ Completed("lambda_call")
    /\ ctl' = Value(Nil)
    /\ kont' = Popped
    /\ UNCHANGED <<driverVars, envs, environment, output, pureVars>>

\* LoxLambdaExpression.call: `except Return as return_`
LoxLambdaExpression_call_except ==
    /\ Raising("lambda_call")
    /\ ctl.exc.t = "Return"
    /\ ctl' = Value(ctl.exc.value)
    /\ kont' = Popped
    /\ UNCHANGED <<driverVars, envs, environment, output, pureVars>>

\* the values time.time() is taken to return
MaxClock == 1
ClockValues == 0..MaxClock

\* AnonymousLoxCallable.call of `clock`
AnonymousLoxCallable_call ==
    /\ CallChecked
    /\ Top.callee.k = "native"
    /\ \E time \in ClockValues : ctl' = Value(Num(time))
    /\ kont' = Popped
    /\ UNCHANGED <<driverVars, envs, environment, output, pureVars>>

-----------------------------------------------------------------------------
(* Classes and instances (LoxFunction.bind, LoxInstance, LoxClass and the   *)
(* visit methods for class declarations, property access and `this`).       *)

\* LoxFunction.bind: the environments with the one that holds `this`, and
\* the function closed over it
LoxFunction_bind(heap, function, instance) ==
    [envs |-> Environment_define(Environment(heap, function.closure), Len(heap) + 1,
                                 "this", instance, TRUE),
     function |-> [function EXCEPT !.closure = Len(heap) + 1]]

\* LoxFunction.call up to the loop of execute_block, called from a method
\* of the interpreter with the stack as given
LoxFunction_call_enter(heap0, stack, function, arguments) ==
    LET heap == Environment(heap0, function.closure)
    IN [envs |-> DefineParams(heap, Len(heap), function.declaration.params, arguments, 1),
        kont |-> stack \o <<[f |-> "function_call", function |-> function,
                             environment |-> Len(heap)],
                            BlockFrame(function.declaration.body)>>,
        environment |-> Len(heap)]

\* visit_class_stmt.  The dict comprehension calls LoxFunction(...,
\* is_statis=...), a keyword LoxFunction.__init__ does not have, so the
\* first method of the class raises TypeError after the name is declared
Interpreter_visit_class_stmt ==
    /\ Executing("Class")
    /\ LET declared == Environment_define(envs, environment, ctl.node.name.lexeme,
                                          Nil, FALSE)
           klass == LoxClassRef(Len(instances) + 1)
           assigned == Environment_assign(declared, environment, ctl.node.name, klass)
       IN IF ctl.node.methods # <<>>
          THEN /\ envs' = declared
               /\ instances' = instances
               /\ ctl' = Raise(PyError("TypeError"))
          ELSE /\ instances' = LoxClass(instances, ctl.node.name.lexeme, EmptyDict)
               /\ envs' = assigned.heap
               /\ ctl' = IF assigned.exc = NoneNode THEN Done ELSE Raise(assigned.exc)
    /\ UNCHANGED <<driverVars, environment, kont, output, input, result>>

\* LoxClass.call: the instance is made and, if the class has an init, init
\* is bound to it and called
LoxClass_call ==
    /\ CallChecked
    /\ Top.callee.k = "class"
    /\ LET heap == LoxInstance(instances, Top.callee.ref)
           instance == LoxInstanceRef(Len(heap))
           initializer == LoxClass_find_method(instances, Top.callee.ref, "init")
           frame == [f |-> "class_call", instance |-> instance]
       IN /\ instances' = heap
          /\ IF initializer # NoneNode
             THEN LET bound == LoxFunction_bind(envs, initializer, instance)
                      entered == LoxFunction_call_enter(bound.envs, Append(Popped, frame),
                                                        bound.function, Top.arguments)
                  IN /\ envs' = entered.envs
                     /\ kont' = entered.kont
                     /\ environment' = entered.environment
                     /\ ctl' = Done
             ELSE /\ kont' = Append(Popped, frame)
                  /\ ctl' = Value(Nil)
                  /\ UNCHANGED <<envs, environment>>
    /\ UNCHANGED <<driverVars, output, input, result>>

\* LoxClass.call: `return instance`
LoxClass_call_return ==
    /\ Resuming("class_call")
    /\ ctl' = Value(Top.instance)
    /\ kont' = Popped
    /\ UNCHANGED <<driverVars, envs, environment, output, pureVars>>

\* LoxInstance.get: the exception raised or the value, and the environments
\* after (bind makes one)
LoxInstance_get(heap, instance, name) ==
    LET object == instances[instance.ref]
        method == LoxClass_find_method(instances, object.klass, name.lexeme)
    IN IF DictHas(object.fields, name.lexeme)
       THEN [exc |-> NoneNode, value |-> DictAt(object.fields, name.lexeme), envs |-> heap]
       ELSE IF method # NoneNode
       THEN [exc |-> NoneNode, value |-> LoxFunction_bind(heap, method, instance).function,
             envs |-> LoxFunction_bind(heap, method, instance).envs]
       ELSE [exc |-> RuntimeException(name, "Undefined property " \o name.lexeme \o "."),
             value |-> Nil, envs |-> heap]

Interpreter_visit_get_expr ==
    /\ Evaluating("Get")
    /\ kont' = Append(kont, [f |-> "get", expr |-> ctl.node])
    /\ ctl' = Eval(ctl.node.object)
    /\ UNCHANGED <<driverVars, envs, environment, output, pureVars>>

\* visit_get_expr with the object evaluated
Interpreter_visit_get_expr_get ==
    /\ Resuming("get")
    /\ IF ~IsLoxInstance(ctl.value)
       THEN /\ ctl' = Raise(RuntimeException(Top.expr.name, "Only instances have properties."))
            /\ kont' = Popped
            /\ UNCHANGED <<envs, environment>>
       ELSE LET got == LoxInstance_get(envs, ctl.value, Top.expr.name)
                entered == LoxFunction_call_enter(got.envs, Popped, got.value, <<>>)
            IN IF got.exc # NoneNode
               THEN /\ ctl' = Raise(got.exc)
                    /\ kont' = Popped
                    /\ UNCHANGED <<envs, environment>>
               ELSE IF got.value.k = "function" /\ got.value.is_getter
               THEN /\ envs' = entered.envs
                    /\ kont' = entered.kont
                    /\ environment' = entered.environment
                    /\ ctl' = Done
               ELSE /\ ctl' = Value(got.value)
                    /\ envs' = got.envs
                    /\ kont' = Popped
                    /\ environment' = environment
    /\ UNCHANGED <<driverVars, output, pureVars>>

Interpreter_visit_set_expr ==
    /\ Evaluating("Set")
    /\ kont' = Append(kont, [f |-> "set", expr |-> ctl.node, instance |-> Nil])
    /\ ctl' = Eval(ctl.node.object)
    /\ UNCHANGED <<driverVars, envs, environment, output, pureVars>>

\* visit_set_expr with the object evaluated
Interpreter_visit_set_expr_value ==
    /\ Resuming("set")
    /\ Top.instance = Nil
    /\ IF ~IsLoxInstance(ctl.value)
       THEN /\ ctl' = Raise(RuntimeException(Top.expr.name, "Only instances have fields."))
            /\ kont' = Popped
       ELSE /\ ctl' = Eval(Top.expr.value)
            /\ kont' = [kont EXCEPT ![Len(kont)].instance = ctl.value]
    /\ UNCHANGED <<driverVars, envs, environment, output, pureVars>>

\* LoxInstance.set
LoxInstance_set(heap, instance, key, value) ==
    IF DictHas(LoxInstance_load_default_fields(heap[instance.ref].klass,
                                               heap[heap[instance.ref].klass].methods),
               key.lexeme)
    THEN [exc |-> RuntimeException(key, key.lexeme \o " is a reserved field."),
          heap |-> heap]
    ELSE [exc |-> NoneNode,
          heap |-> [heap EXCEPT ![instance.ref].fields = DictPut(@, key.lexeme, value)]]

\* visit_set_expr with the value evaluated
Interpreter_visit_set_expr_set ==
    /\ Resuming("set")
    /\ Top.instance # Nil
    /\ LET set == LoxInstance_set(instances, Top.instance, Top.expr.name, ctl.value)
       IN /\ instances' = set.heap
          /\ ctl' = IF set.exc = NoneNode THEN ctl ELSE Raise(set.exc)
    /\ kont' = Popped
    /\ UNCHANGED <<driverVars, envs, environment, output, input, result>>

Interpreter_visit_this_expr ==
    /\ Evaluating("This")
    /\ ctl' = Outcome(Interpreter_look_up_variable(ctl.node.keyword, ctl.node))
    /\ UNCHANGED <<driverVars, envs, environment, kont, output, pureVars>>

Interpreter_classes ==
    \/ Interpreter_visit_class_stmt
    \/ LoxClass_call
    \/ LoxClass_call_return
    \/ Interpreter_visit_get_expr
    \/ Interpreter_visit_get_expr_get
    \/ Interpreter_visit_set_expr
    \/ Interpreter_visit_set_expr_value
    \/ Interpreter_visit_set_expr_set

-----------------------------------------------------------------------------
(* The programs that are run, the initial state and the next-state          *)
(* relations.                                                               *)

\* scenario 1 of the specification
CounterProgram ==
    "fun make(){var i=0; fun inc(){i=i+1; return i;} return inc;} var c=make(); print c(); print c(); print c();"

\* scenario 1 with two closures
TwoCountersProgram ==
    "fun make(){var i=0; fun inc(){i=i+1; return i;} return inc;} var c=make(); var d=make(); print c(); print c(); print d();"

TopLevelReturnProgram == "print 1; return;"
ParseErrorProgram == "print 1; print ;"
LexicalErrorProgram == "print 1; @"
ShadowProgram == "{ var a = 1; { var a = 2; print a; } }"
OwnInitializerProgram == "{ var a = a; }"
BreakInLambdaProgram == "while (true) (fun () { break; })(); print 2;"
BreakAfterLoopProgram == "var g; while (true) { g = fun () { break; }; break; } g();"
GlobalUninitializedProgram == "var a; print a;"
LocalUninitializedProgram == "{ var a; print a; }"
GlobalAssignedProgram == "var a; a = 3; print a;"
LocalAssignedProgram == "{ var a; a = 3; print a; }"
ReturnInBlockProgram == "fun f(n) { { return n; } } { print f(1); }"
BreakInBlockProgram == "var n = 0; while (n < 2) { n = n + 1; { if (n > 0) break; } } print n;"
ErrorInBlockProgram == "{ var s = \"a\"; { print -s; } }"
LambdaProgram == "var f = fun (a, b) { print a + b; }; f(1, 2); f(1);"
LoopProgram == "var n = 0; while (n < 2) { n = n + 1; } print n;"
CallsProgram ==
    "fun f() { print 1; } f(); fun r() { return 2; } print r(); var g = fun () { return 3; }; print g(); g = fun () { }; g();"
OperatorsProgram ==
    "if (nil or clock() >= 0) print (true and !false) ? \"y\" : 2 * 3; else print 0; var x = 1; x();"

ArityProgram ==
    "print 0; fun f(a) { print 1; } f(2, 3); print 4;"

ClassProgram ==
    "class A {} print A; var a = A(); print a; a.x = 1; print a.x; print a.y;"

\* scenario 4 of the specification
ScenarioFourProgram ==
    "class P{init(x,y){this.x=x;this.y=y;} sum(){return this.x+this.y;}} var p=P(3,4); print p.sum();"

ThisProgram ==
    "print this;"

InitializerProgram ==
    "class A { init(n) { if (n > 0) return; if (n < 0) return 5; } } var a = A(0); print a.init(0) == a; print a.init(1) == a; print a.init(-1) == a;"

\* a bound method stored and called later, a field shadowing a method, a missing property
PropertyProgram ==
    "class A { m() { return this.v; } } var a = A(); a.v = 1; var f = a.m; print f(); a.m = 2; print a.m; print a.z;"

\* or and and, with a right operand that counts its evaluations
LogicalProgram ==
    "var x=0; fun bump(){x=x+1; return x;} print true or bump(); print nil and bump(); print x; print nil or bump(); print 1 and bump();"

\* the ternary operator, with branches that count their evaluations
TernaryProgram ==
    "var x=0; fun bump(){x=x+1; return x;} print x == 0 ? \"t\" : bump(); print x; print nil ? bump() : \"e\"; print x; print nil ? 1 : bump();"

\* operands that assign, the last pair failing the operand type check
BinaryOrderProgram ==
    "var a = 1; print (a = 2) + a; print a - (a = 5); print \"s\" - (a = 7); print 0;"

\* a callee that assigns and is not callable, arguments that print
CallOrderProgram ==
    "var a = 1; fun pa() { print a; return a; } fun pb() { print \"b\"; } (a = 2)(pa(), pb()); print \"no\";"

\* arguments with effects in a call of the wrong arity
ArityOrderProgram ==
    "var a = 1; fun pa() { print a; return a; } fun pb() { print \"b\"; } pb(a = 2, pa()); print \"no\";"

\* the default field methods of an instance
DefaultFieldsProgram ==
    "class A {} var a = A(); print a.methods;"

\* scenario 3 of the specification
ScenarioThreeProgram ==
    "for(var i=0;i<5;i=i+1){ if(i==3) break; print i;}"

\* a lambda whose parameter is a number
LambdaParameterProgram ==
    "var f = fun (1) {}; print 2;"

Programs ==
    {CounterProgram, TwoCountersProgram, TopLevelReturnProgram, ParseErrorProgram,
     LexicalErrorProgram, ShadowProgram, OwnInitializerProgram, BreakInLambdaProgram,
     BreakAfterLoopProgram, GlobalUninitializedProgram, LocalUninitializedProgram,
     GlobalAssignedProgram, LocalAssignedProgram, ReturnInBlockProgram,
     BreakInBlockProgram, ErrorInBlockProgram, LambdaProgram, LoopProgram,
     CallsProgram, OperatorsProgram,
     ArityProgram,
     ClassProgram,
     ScenarioFourProgram,
     ThisProgram,
     InitializerProgram,
     PropertyProgram,
     LogicalProgram,
     TernaryProgram,
     BinaryOrderProgram,
     CallOrderProgram,
     ArityOrderProgram,
     DefaultFieldsProgram,
     ScenarioThreeProgram,
     LambdaParameterProgram}

\* Interpreter.__init__: the globals, with clock defined
InitialEnvironments ==
    Environment_define(Environment(<<>>, 0), globals, "clock",
                       AnonymousLoxCallable("clock", 0), TRUE)

\* Lox.__init__ and the call of __run with the source of a file
Init ==
    /\ source \in Programs
    /\ phase = "start"
    /\ tokens = <<>>
    /\ statements = <<>>
    /\ had_error = FALSE
    /\ had_runtime_error = FALSE
    /\ reported = <<>>
    /\ locals = <<>>
    /\ envs = InitialEnvironments
    /\ environment = globals
    /\ ctl = Idle
    /\ kont = <<>>
    /\ output = <<>>
    /\ input = <<>>
    /\ result = <<>>
    /\ instances = <<>>

Interpreter_statements ==
    \/ Interpreter_interpret_next
    \/ Interpreter_interpret_except
    \/ Propagate
    \/ Interpreter_visit_var_stmt
    \/ Interpreter_visit_var_stmt_define
    \/ Interpreter_visit_while_stmt
    \/ Interpreter_visit_while_stmt_test
    \/ Interpreter_visit_while_stmt_again
    \/ Interpreter_visit_while_stmt_except
    \/ Interpreter_visit_break_stmt
    \/ Interpreter_visit_function_stmt
    \/ Interpreter_visit_if_stmt
    \/ Interpreter_visit_if_stmt_branch
    \/ Interpreter_visit_block_stmt
    \/ Interpreter_execute_block_next
    \/ Interpreter_execute_block_return
    \/ Interpreter_execute_block_finally
    \/ Interpreter_visit_print_stmt
    \/ Interpreter_visit_print_stmt_print
    \/ Interpreter_visit_return_stmt
    \/ Interpreter_visit_return_stmt_raise
    \/ Interpreter_visit_expression_stmt
    \/ Interpreter_visit_expression_stmt_return

Interpreter_expressions ==
    \/ Interpreter_visit_literal_expr
    \/ Interpreter_visit_grouping_expr
    \/ Interpreter_visit_variable_expr
    \/ Interpreter_visit_lambda_expr
    \/ Interpreter_visit_assign_expr
    \/ Interpreter_visit_assign_expr_assign
    \/ Interpreter_visit_logical_expr
    \/ Interpreter_visit_logical_expr_right
    \/ Interpreter_visit_ternary_expr
    \/ Interpreter_visit_ternary_expr_branch
    \/ Interpreter_visit_binary_expr
    \/ Interpreter_visit_binary_expr_right
    \/ Interpreter_visit_binary_expr_match
    \/ Interpreter_visit_unary_expr
    \/ Interpreter_visit_unary_expr_match
    \/ Interpreter_visit_call_expr
    \/ Interpreter_visit_call_expr_evaluated
    \/ Interpreter_visit_call_expr_raise
    \/ LoxFunction_call
    \/ LoxFunction_call_return
    \/ LoxFunction_call_except
    \/ LoxLambdaExpression_call
    \/ LoxLambdaExpression_call_return
    \/ LoxLambdaExpression_call_except
    \/ AnonymousLoxCallable_call

\* Lox.__run on a source file
Next ==
    \/ Lox_run_scan
    \/ Lox_run_parse
    \/ Lox_run_return
    \/ Lox_run_interpret
    \/ Lox_run_crash
    \/ Interpreter_statements
    \/ Interpreter_expressions
    \/ Interpreter_classes
    \/ Interpreter_visit_this_expr

Spec == Init /\ [][Next]_vars

-----------------------------------------------------------------------------
(* The pipeline of the specification: the resolver runs between the parser  *)
(* and the interpreter, with parse_error as its callback.                   *)

\* run: the resolver pass over the statements that parsed
Lox_run_resolve ==
    /\ phase = "parsed"
    /\ ~had_error
    /\ LET resolver == Resolver_run(locals, statements)
       IN /\ locals' = resolver.locals
          /\ reported' = reported \o Reports(ParseReport, resolver.errors)
          /\ had_error' = (had_error \/ resolver.errors # <<>>)
    /\ phase' = "resolved"
    /\ UNCHANGED <<source, tokens, statements, had_runtime_error, envs, environment,
                   ctl, kont, output, input, result, instances>>

\* run: the resolver reported an error, execution is skipped
Lox_run_resolve_return ==
    /\ phase = "resolved"
    /\ had_error
    /\ phase' = "done"
    /\ UNCHANGED <<source, tokens, statements, had_error, had_runtime_error, reported,
                   locals, envs, environment, ctl, kont, output, input, result, instances>>

\* run: the interpreter runs the resolved statements
Lox_run_resolve_interpret ==
    /\ phase = "resolved"
    /\ ~had_error
    /\ phase' = "running"
    /\ kont' = <<InterpretFrame>>
    /\ ctl' = Done
    /\ UNCHANGED <<source, tokens, statements, had_error, had_runtime_error, reported,
                   locals, envs, environment, output, input, result, instances>>

NextResolved ==
    \/ Lox_run_scan
    \/ Lox_run_parse
    \/ Lox_run_return
    \/ Lox_run_resolve
    \/ Lox_run_resolve_return
    \/ Lox_run_resolve_interpret
    \/ Lox_run_crash
    \/ Interpreter_statements
    \/ Interpreter_expressions
    \/ Interpreter_classes

SpecResolved == Init /\ [][NextResolved]_vars

-----------------------------------------------------------------------------
(* The resolver's scope stack on its own (src/lox/resolver.py): scopes are  *)
(* opened and closed, names are declared in the innermost scope, and        *)
(* references are resolved against the stack.  `result` holds the Resolver, *)
(* `input` the operation that was applied last.                             *)

MaxScopes == 3
MaxNodes == 2
ScopeNames == {"a", "b"}

NameToken(lexeme) == Token("IDENTIFIER", lexeme, NoneNode, 1)

Operation(op, lexeme, id) == [op |-> op, lexeme |-> lexeme, id |-> id]

InitScopes ==
    /\ source = ""
    /\ phase = "scopes"
    /\ tokens = <<>>
    /\ statements = <<>>
    /\ had_error = FALSE
    /\ had_runtime_error = FALSE
    /\ reported = <<>>
    /\ locals = <<>>
    /\ envs = InitialEnvironments
    /\ environment = globals
    /\ ctl = Idle
    /\ kont = <<>>
    /\ output = <<>>
    /\ input = Operation("init", "", 0)
    /\ result = Resolver(<<>>)
    /\ instances = <<>>

scopeVars == <<source, phase, tokens, statements, had_error, had_runtime_error,
               reported, locals, envs, environment, ctl, kont, output, instances>>

\* __begin_scope
Scopes_begin_scope ==
    /\ phase = "scopes"
    /\ Len(result.scopes) < MaxScopes
    /\ result' = Resolver_begin_scope(result)
    /\ input' = Operation("begin_scope", "", input.id)
    /\ UNCHANGED scopeVars

\* __end_scope
Scopes_end_scope ==
    /\ phase = "scopes"
    /\ result.scopes # <<>>
    /\ result' = Resolver_end_scope(result)
    /\ input' = Operation("end_scope", "", input.id)
    /\ UNCHANGED scopeVars

\* visit_var_stmt without initializer: __declare, then __define
Scopes_visit_var_stmt ==
    /\ phase = "scopes"
    /\ result.scopes # <<>>
    /\ \E lexeme \in ScopeNames :
        /\ ~DictHas(Resolver_peek_scope(result), lexeme)
        /\ result' = Resolver_define(Resolver_declare(result, NameToken(lexeme)),
                                     NameToken(lexeme))
        /\ input' = Operation("var", lexeme, input.id)
    /\ UNCHANGED scopeVars

\* __resolve_local of a new Variable node
Scopes_resolve_local ==
    /\ phase = "scopes"
    /\ input.id < MaxNodes
    /\ \E lexeme \in ScopeNames :
        /\ result' = Resolver_resolve_local(
                        result, ExprVariable(input.id + 1, NameToken(lexeme)),
                        NameToken(lexeme))
        /\ input' = Operation("resolve_local", lexeme, input.id + 1)
    /\ UNCHANGED scopeVars

NextScopes ==
    \/ Scopes_begin_scope
    \/ Scopes_end_scope
    \/ Scopes_visit_var_stmt
    \/ Scopes_resolve_local

SpecScopes == InitScopes /\ [][NextScopes]_vars

-----------------------------------------------------------------------------
(* The parser on its own (src/lox/parser.py): it is handed the tokens of    *)
(* any sequence of the words below, and `result` holds the Parser after     *)
(* parse().                                                                 *)

MaxWords == 5
Words == {"while (", ")", ";", "break", "true"}

\* the words, each followed by a blank
RECURSIVE JoinWords(_)
JoinWords(words) ==
    IF words = <<>> THEN "" ELSE Head(words) \o " " \o JoinWords(Tail(words))

Sources == UNION {{JoinWords(words) : words \in [1..n -> Words]} : n \in 0..MaxWords}

InitParser ==
    /\ source \in Sources
    /\ phase = "tokens"
    /\ tokens = ScanTokens(source).tokens
    /\ statements = <<>>
    /\ had_error = FALSE
    /\ had_runtime_error = FALSE
    /\ reported = <<>>
    /\ locals = <<>>
    /\ envs = InitialEnvironments
    /\ environment = globals
    /\ ctl = Idle
    /\ kont = <<>>
    /\ output = <<>>
    /\ input = <<>>
    /\ result = Parser(tokens)
    /\ instances = <<>>

\* Parser(tokens, parse_error).parse()
Parser_parse_tokens ==
    /\ phase = "tokens"
    /\ LET parser == Parser_parse(tokens)
       IN /\ statements' = parser.node
          /\ result' = parser.ps
          /\ reported' = reported \o Reports(ParseReport, parser.ps.errors)
          /\ had_error' = (had_error \/ parser.ps.errors # <<>>)
    /\ phase' = "tokens_parsed"
    /\ UNCHANGED <<source, tokens, had_runtime_error, locals, envs, environment,
                   ctl, kont, output, input, instances>>

NextParser == Parser_parse_tokens

SpecParser == InitParser /\ [][NextParser]_vars

-----------------------------------------------------------------------------
(* __is_equal and __stringify on their own: a pair of values of every kind  *)
(* is drawn, and `==`, `!=` and print's conversion are applied to it.       *)

\* declarations of two functions and two lambdas, as the parser makes them
ValueDeclarations ==
    Parser_parse(ScanTokens("fun f() {} fun g() {} (fun () {}); (fun () {});").tokens).node

\* two classes (each followed by its metaclass) and two instances of the first
ValueHeap ==
    LET classes == LoxClass(LoxClass(<<>>, "A", EmptyDict), "B", EmptyDict)
    IN LoxInstance(LoxInstance(classes, 1), 1)

OneAndAHalf == [k |-> "num", n |-> 1, frac |-> "5"]

Values ==
    {Nil, Bool(TRUE), Bool(FALSE),
     Num(0), Num(1), Num(2), OneAndAHalf,
     Str(""), Str("1"), Str("nil"), Str("None"), Str("true"), Str("A"),
     AnonymousLoxCallable("clock", 0),
     LoxFunction(ValueDeclarations[1], globals, FALSE),
     LoxFunction(ValueDeclarations[2], globals, FALSE),
     LoxLambdaExpression(ValueDeclarations[3].expression.expression, globals),
     LoxLambdaExpression(ValueDeclarations[4].expression.expression, globals),
     LoxClassRef(1), LoxClassRef(3),
     LoxInstanceRef(5), LoxInstanceRef(6)}

\* the tokens of `==` and `!=`
EqualityOperators == ScanTokens("== !=").tokens

InitValues ==
    /\ source = ""
    /\ phase = "values"
    /\ tokens = <<>>
    /\ statements = <<>>
    /\ had_error = FALSE
    /\ had_runtime_error = FALSE
    /\ reported = <<>>
    /\ locals = <<>>
    /\ envs = InitialEnvironments
    /\ environment = globals
    /\ ctl = Idle
    /\ kont = <<>>
    /\ output = <<>>
    /\ input \in Values \X Values
    /\ result = <<>>
    /\ instances = ValueHeap

valueVars ==
    <<source, tokens, statements, had_error, had_runtime_error, reported, locals,
      envs, environment, ctl, kont, input, instances>>

\* visit_binary_expr for `left == right` and `left != right`, both operands evaluated
Values_visit_binary_expr ==
    /\ phase = "values"
    /\ result' = [equal |-> Interpreter_binary(EqualityOperators[1], input[1], input[2]),
                  unequal |-> Interpreter_binary(EqualityOperators[2], input[1], input[2])]
    /\ phase' = "compared"
    /\ UNCHANGED <<valueVars, output>>

\* visit_print_stmt with the value evaluated
Values_visit_print_stmt ==
    /\ phase = "values"
    /\ output' = Append(output, Interpreter_stringify(input[1]))
    /\ phase' = "printed"
    /\ UNCHANGED <<valueVars, result>>

NextValues == Values_visit_binary_expr \/ Values_visit_print_stmt

SpecValues == InitValues /\ [][NextValues]_vars

-----------------------------------------------------------------------------
(* The scanner on its own: scan_tokens over every short source made of      *)
(* pieces of each class, one iteration of its loop per step.                *)

MaxSourcePieces == 3

\* a letter, a digit, the dot, the quote, the marks of a block comment (side
\* by side they hold the mark of a line comment), a character the language
\* does not have, and a line break
Pieces == {"a", "1", ".", "\"", "/*", "*/", "@", "\n"}

RECURSIVE JoinPieces(_)
JoinPieces(pieces) ==
    IF pieces = <<>> THEN "" ELSE Head(pieces) \o JoinPieces(Tail(pieces))

ScannerSources ==
    UNION {{JoinPieces(pieces) : pieces \in [1..n -> Pieces]} : n \in 0..MaxSourcePieces}

\* Scanner(source, lexical_error)
InitScanner ==
    /\ source \in ScannerSources
    /\ phase = "scanning"
    /\ tokens = <<>>
    /\ statements = <<>>
    /\ had_error = FALSE
    /\ had_runtime_error = FALSE
    /\ reported = <<>>
    /\ locals = <<>>
    /\ envs = InitialEnvironments
    /\ environment = globals
    /\ ctl = Idle
    /\ kont = <<>>
    /\ output = <<>>
    /\ input = <<>>
    /\ result = Scanner(source)
    /\ instances = <<>>

scannerVars ==
    <<source, statements, had_error, had_runtime_error, reported, locals,
      envs, environment, ctl, kont, output, input, instances>>

\* scan_tokens: one iteration of the loop
Scanner_scan_tokens_loop ==
    /\ phase = "scanning"
    /\ ~ScIsAtEnd(result)
    /\ result' = ScanToken([result EXCEPT !.start = result.current])
    /\ UNCHANGED <<scannerVars, phase, tokens>>

\* scan_tokens that returns its tokens without the end-of-input token
Scanner_scan_tokens_return_as_scanned ==
    /\ phase = "scanning"
    /\ ScIsAtEnd(result)
    /\ tokens' = result.tokens
    /\ result' = result
    /\ phase' = "scanned"
    /\ UNCHANGED scannerVars

\* scan_tokens: the loop has ended
Scanner_scan_tokens_return ==
    /\ phase = "scanning"
    /\ ScIsAtEnd(result)
    /\ result' = [result EXCEPT !.tokens = Append(@, Token("EOF", "", Nil, result.line))]
    /\ tokens' = result'.tokens
    /\ phase' = "scanned"
    /\ UNCHANGED scannerVars

NextScanner == Scanner_scan_tokens_loop \/ Scanner_scan_tokens_return

\* the loop of scan_tokens runs on while the scanner is not at the end
SpecScanner == InitScanner /\ [][NextScanner]_vars /\ WF_vars(NextScanner)

-----------------------------------------------------------------------------
(* The parser on chains of call and property suffixes after a primary.      *)

MaxSuffixes == 4

Suffixes == {"()", "(a)", ".b"}

\* f, then up to MaxSuffixes suffixes, as an expression statement
SuffixSources ==
    UNION {{"f" \o JoinPieces(suffixes) \o ";" : suffixes \in [1..n -> Suffixes]} :
            n \in 0..MaxSuffixes}

InitSuffixes ==
    /\ source \in SuffixSources
    /\ phase = "tokens"
    /\ tokens = ScanTokens(source).tokens
    /\ statements = <<>>
    /\ had_error = FALSE
    /\ had_runtime_error = FALSE
    /\ reported = <<>>
    /\ locals = <<>>
    /\ envs = InitialEnvironments
    /\ environment = globals
    /\ ctl = Idle
    /\ kont = <<>>
    /\ output = <<>>
    /\ input = <<>>
    /\ result = Parser(tokens)
    /\ instances = <<>>

SpecSuffixes == InitSuffixes /\ [][NextParser]_vars

-----------------------------------------------------------------------------
(* The loop of Parser.parse, one declaration per step, over sources with    *)
(* statements that miss their expression, their semicolon or their brace,   *)
(* or that assign to what is no assignment target.                          *)

MaxRecoveryWords == 4
RecoveryWords == {"print", "1", ";", "{", "}", "="}

RecoverySources ==
    UNION {{JoinWords(words) : words \in [1..n -> RecoveryWords]} : n \in 0..MaxRecoveryWords}

InitRecovery ==
    /\ source \in RecoverySources
    /\ phase = "tokens"
    /\ tokens = ScanTokens(source).tokens
    /\ statements = <<>>
    /\ had_error = FALSE
    /\ had_runtime_error = FALSE
    /\ reported = <<>>
    /\ locals = <<>>
    /\ envs = InitialEnvironments
    /\ environment = globals
    /\ ctl = Idle
    /\ kont = <<>>
    /\ output = <<>>
    /\ input = <<>>
    /\ result = Parser(tokens)
    /\ instances = <<>>

recoveryVars ==
    <<source, tokens, had_runtime_error, locals, envs, environment, ctl, kont, output,
      input, instances>>

\* parse: one iteration of the loop that skips the token in error only
Parser_parse_declaration_skip_one ==
    /\ phase = "tokens"
    /\ ~Parser_is_at_end(result)
    /\ LET tried == Parser_declaration_try(result)
           d == IF tried.ps.exc
                THEN Ret(Parser_advance([tried.ps EXCEPT !.exc = FALSE]), NoneNode)
                ELSE tried
       IN /\ result' = d.ps
          /\ statements' = IF d.node = NoneNode THEN statements
                           ELSE Append(statements, d.node)
          /\ reported' = reported \o Reports(ParseReport,
                            SubSeq(d.ps.errors, Len(result.errors) + 1, Len(d.ps.errors)))
          /\ had_error' = (had_error \/ Len(d.ps.errors) > Len(result.errors))
    /\ UNCHANGED <<recoveryVars, phase>>

\* parse: one iteration of the loop, a call of __declaration
Parser_parse_declaration ==
    /\ phase = "tokens"
    /\ ~Parser_is_at_end(result)
    /\ LET d == Parser_nonterminal("declaration", result)
       IN /\ result' = d.ps
          /\ statements' = IF d.node = NoneNode THEN statements
                           ELSE Append(statements, d.node)
          /\ reported' = reported \o Reports(ParseReport,
                            SubSeq(d.ps.errors, Len(result.errors) + 1, Len(d.ps.errors)))
          /\ had_error' = (had_error \/ Len(d.ps.errors) > Len(result.errors))
    /\ UNCHANGED <<recoveryVars, phase>>

\* parse: the loop has ended
Parser_parse_return ==
    /\ phase = "tokens"
    /\ Parser_is_at_end(result)
    /\ phase' = "tokens_parsed"
    /\ UNCHANGED <<recoveryVars, result, statements, reported, had_error>>

NextRecovery == Parser_parse_declaration \/ Parser_parse_return

SpecRecovery == InitRecovery /\ [][NextRecovery]_vars

-----------------------------------------------------------------------------
(* The loops of __function and __finish_call over lists of about MaxArity   *)
(* entries, one iteration per step.  The token lists are made as the        *)
(* scanner makes them; the parser starts just after the `(` of the list.    *)

ArityMargin == 2

\* the numbers of entries tried
EntryCounts == (MaxArity - ArityMargin)..(MaxArity + ArityMargin)

IdentifierToken(name) == Token("IDENTIFIER", name, Nil, 1)

\* n identifiers named a, separated by commas
EntryTokens(n) ==
    [i \in 1..(2 * n - 1) |->
        IF i % 2 = 1 THEN IdentifierToken("a") ELSE Token("COMMA", ",", Nil, 1)]

\* fun f(a, ..., a) {}   and   f(a, ..., a);
ListTokens(kind, n) ==
    IF kind = "function"
    THEN <<Token("FUN", "fun", Nil, 1), IdentifierToken("f"), Token("LEFT_PAREN", "(", Nil, 1)>>
         \o EntryTokens(n)
         \o <<Token("RIGHT_PAREN", ")", Nil, 1), Token("LEFT_BRACE", "{", Nil, 1),
              Token("RIGHT_BRACE", "}", Nil, 1), Token("EOF", "", Nil, 1)>>
    ELSE <<IdentifierToken("f"), Token("LEFT_PAREN", "(", Nil, 1)>>
         \o EntryTokens(n)
         \o <<Token("RIGHT_PAREN", ")", Nil, 1), Token("SEMICOLON", ";", Nil, 1),
              Token("EOF", "", Nil, 1)>>

\* the parser once __function or __call has consumed the `(`
InitArity ==
    /\ source = ""
    /\ phase = "entries"
    /\ input \in {"function", "call"} \X EntryCounts
    /\ tokens = ListTokens(input[1], input[2])
    /\ statements = <<>>
    /\ had_error = FALSE
    /\ had_runtime_error = FALSE
    /\ reported = <<>>
    /\ locals = <<>>
    /\ envs = InitialEnvironments
    /\ environment = globals
    /\ ctl = Idle
    /\ kont = <<>>
    /\ output = <<>>
    /\ result = Ret([Parser(tokens) EXCEPT
                        !.current = IF input[1] = "function" THEN 3 ELSE 2,
                        !.function_count = IF input[1] = "function" THEN 1 ELSE 0],
                    <<>>)
    /\ instances = <<>>

arityVars ==
    <<source, tokens, had_error, had_runtime_error, reported, locals, envs, environment,
      ctl, kont, output, input, instances>>

\* the loop has taken one more entry: it goes on after a comma
EntryTaken(ps, entries) ==
    /\ result' = IF Parser_match(ps, {"COMMA"}) THEN Ret(Parser_advance(ps), entries)
                 ELSE Ret(ps, entries)
    /\ phase' = IF Parser_match(ps, {"COMMA"}) THEN "entries" ELSE "entries_taken"

\* __function: one iteration of the loop, which lets one list of MaxArity + 1 pass
Parser_function_param_late ==
    /\ phase = "entries"
    /\ input[1] = "function"
    /\ LET ps1 == IF Len(result.node) > MaxArity
                  THEN Parser_error(result.ps, Parser_peek(result.ps),
                                    "Can't have more than 255 parameters.")
                  ELSE result.ps
           c == Parser_consume(ps1, "IDENTIFIER", "Expect parameter name.")
       IN IF c.ps.exc
          THEN result' = Ret(c.ps, result.node) /\ phase' = "raised"
          ELSE EntryTaken(c.ps, Append(result.node, c.node))
    /\ UNCHANGED <<arityVars, statements>>

\* __function: one iteration of the loop over the parameters
Parser_function_param ==
    /\ phase = "entries"
    /\ input[1] = "function"
    /\ LET ps1 == IF Len(result.node) >= MaxArity
                  THEN Parser_error(result.ps, Parser_peek(result.ps),
                                    "Can't have more than 255 parameters.")
                  ELSE result.ps
           c == Parser_consume(ps1, "IDENTIFIER", "Expect parameter name.")
       IN IF c.ps.exc
          THEN result' = Ret(c.ps, result.node) /\ phase' = "raised"
          ELSE EntryTaken(c.ps, Append(result.node, c.node))
    /\ UNCHANGED <<arityVars, statements>>

\* __function after the loop
Parser_function_return ==
    /\ phase = "entries_taken"
    /\ input[1] = "function"
    /\ LET rp == Parser_consume(result.ps, "RIGHT_PAREN", "Expect ')' after parameters.")
           lb == Parser_consume(rp.ps, "LEFT_BRACE", "Expr '{' after parameters.")
           body == Parser_nonterminal("block_statement", lb.ps)
       IN IF rp.ps.exc \/ lb.ps.exc \/ body.ps.exc
          THEN /\ result' = Ret(IF rp.ps.exc THEN rp.ps ELSE IF lb.ps.exc THEN lb.ps
                                ELSE body.ps, result.node)
               /\ phase' = "raised"
               /\ statements' = statements
          ELSE /\ result' = Ret([body.ps EXCEPT !.function_count = @ - 1], result.node)
               /\ statements' = <<StmtFunction(tokens[2], result.node, body.node)>>
               /\ phase' = "tokens_parsed"
    /\ UNCHANGED arityVars

\* __finish_call: one iteration of the loop over the arguments
Parser_finish_call_argument ==
    /\ phase = "entries"
    /\ input[1] = "call"
    /\ LET ps1 == IF Len(result.node) >= MaxArity
                  THEN Parser_error(result.ps, Parser_peek(result.ps),
                                    "Can't have more than 255 arguments.")
                  ELSE result.ps
           argument == Parser_nonterminal("expression", ps1)
       IN IF argument.ps.exc
          THEN result' = Ret(argument.ps, result.node) /\ phase' = "raised"
          ELSE EntryTaken(argument.ps, Append(result.node, argument.node))
    /\ UNCHANGED <<arityVars, statements>>

\* __finish_call after the loop
Parser_finish_call_return ==
    /\ phase = "entries_taken"
    /\ input[1] = "call"
    /\ LET paren == Parser_consume(result.ps, "RIGHT_PAREN", "Expect ')' after arguments.")
       IN IF paren.ps.exc
          THEN /\ result' = Ret(paren.ps, result.node)
               /\ phase' = "raised"
               /\ statements' = statements
          ELSE /\ result' = Ret(paren.ps, result.node)
               /\ statements' = <<StmtExpression(
                                    ExprCall(ExprVariable(1, tokens[1]), paren.node,
                                             result.node))>>
               /\ phase' = "tokens_parsed"
    /\ UNCHANGED arityVars

NextArity ==
    \/ Parser_function_param
    \/ Parser_function_return
    \/ Parser_finish_call_argument
    \/ Parser_finish_call_return

SpecArity == InitArity /\ [][NextArity]_vars

-----------------------------------------------------------------------------
(* The prompt (Lox.__run_prompt): the lines of a session are run one after  *)
(* the other by the same Lox and the same Interpreter.  `input` holds the   *)
(* lines still to be read; the session ends with an empty line.             *)

MaxPromptLines == 2

\* a definition followed by a runtime error inside a block inside a call
NestedErrorLine == "var a = 1; fun f() { { print b; } } f();"

PromptLines == {NestedErrorLine, "print a;", "print", "a = a + 1;"}

\* the first line is any of the programs or of the lines above
Sessions ==
    {<<first>> \o rest :
        first \in Programs \cup PromptLines,
        rest \in UNION {[1..n -> PromptLines] : n \in 0..(MaxPromptLines - 1)}}

\* Lox.__init__ and the call of __run_prompt
InitPrompt ==
    /\ source = ""
    /\ phase = "prompt"
    /\ tokens = <<>>
    /\ statements = <<>>
    /\ had_error = FALSE
    /\ had_runtime_error = FALSE
    /\ reported = <<>>
    /\ locals = <<>>
    /\ envs = InitialEnvironments
    /\ environment = globals
    /\ ctl = Idle
    /\ kont = <<>>
    /\ output = <<>>
    /\ input \in {session \o <<"">> : session \in Sessions}
    /\ result = <<>>
    /\ instances = <<>>

\* __run_prompt: input("> "); an empty line ends the loop, any other line is
\* handed to __run
Lox_run_prompt_input ==
    /\ phase = "prompt"
    /\ input # <<>>
    /\ input' = Tail(input)
    /\ IF Head(input) = ""
       THEN source' = source /\ phase' = "exited"
       ELSE source' = Head(input) /\ phase' = "start"
    /\ UNCHANGED <<tokens, statements, had_error, had_runtime_error, reported, locals,
                   envs, environment, ctl, kont, output, result, instances>>

\* __run_prompt after __run, without the two assignments to the flags
Lox_run_prompt_reset_kept ==
    /\ phase = "done"
    /\ Interpreter_is_run_prompt
    /\ phase' = "prompt"
    /\ UNCHANGED <<source, tokens, statements, had_error, had_runtime_error, reported,
                   locals, envs, environment, ctl, kont, output, input, result, instances>>

\* __run_prompt after __run: the flags are reset for the next line
Lox_run_prompt_reset ==
    /\ phase = "done"
    /\ Interpreter_is_run_prompt
    /\ had_error' = FALSE
    /\ had_runtime_error' = FALSE
    /\ phase' = "prompt"
    /\ UNCHANGED <<source, tokens, statements, reported, locals, envs, environment,
                   ctl, kont, output, input, result, instances>>

NextPrompt ==
    \/ Lox_run_prompt_input
    \/ Lox_run_prompt_reset
    \/ Lox_run_scan
    \/ Lox_run_parse
    \/ Lox_run_return
    \/ Lox_run_interpret
    \/ Lox_run_crash
    \/ Interpreter_statements
    \/ Interpreter_expressions
    \/ Interpreter_classes
    \/ Interpreter_visit_this_expr

SpecPrompt == InitPrompt /\ [][NextPrompt]_vars

-----------------------------------------------------------------------------
(* The properties.                                                          *)

\* a call of execute_block starts: its frame is pushed
BlockEnters == Len(kont') > Len(kont) /\ kont'[Len(kont')].f = "block"

\* a call of execute_block ends, by a return or by an exception
BlockExits == kont # <<>> /\ Top.f = "block" /\ kont' = Popped

\* C1: for every call of execute_block (block statement, function body,
\* lambda body) the current environment after the call is the current
\* environment before the call, whether the block finishes normally or is
\* left by a Return, a Break or a runtime error: the frame of the call keeps
\* the environment that was current when it started, and the environment
\* that is current when it ends is that one.
C1_EnvironmentRestored ==
    [][/\ BlockEnters => kont'[Len(kont')].previous_environment = environment
       /\ BlockExits => environment' = Top.previous_environment]_vars

\* a Return has left the block of a function body, and the environment of
\* the call is no longer the current one
C1_Witness ==
    /\ ctl.op = "raise"
    /\ ctl.exc.t = "Return"
    /\ kont # <<>>
    /\ Top.f = "function_call"
    /\ environment # Top.environment

\* C2: in run(source) the resolver pass is executed over the parsed
\* statements after parsing and before interpretation, and if it reports an
\* error no statement of the source is executed: whenever the interpreter
\* is running, the resolver has found no error in the statements and the
\* interpreter's table of distances is the one the resolver computes.
C2_ResolverRuns ==
    phase = "running" =>
        /\ Resolver_run(<<>>, statements).errors = <<>>
        /\ locals = Resolver_run(<<>>, statements).locals

\* C3: if the scanner or the parser reported an error, interpret is never
\* invoked for the source: no statement is executed and nothing is printed,
\* even for the statements that parsed correctly.
C3_NoInterpretAfterError ==
    had_error => /\ phase # "running"
                 /\ ctl = Idle
                 /\ kont = <<>>
                 /\ output = <<>>
                 /\ ~had_runtime_error

\* __run has returned for a source with an error, one statement of which
\* parsed correctly
C3_Witness ==
    /\ phase = "done"
    /\ had_error
    /\ statements # <<>>
    /\ output = <<>>


\* the innermost scope of the stack that declares the name, as a Python index
InnermostWith(scopes, lexeme) == Max(ScopesWith(scopes, lexeme))

\* the scope stack with the name's slot in scope i marked used
MarkedUsed(scopes, i, lexeme) ==
    [scopes EXCEPT ![i + 1] =
        DictPut(@, lexeme, [DictAt(@, lexeme) EXCEPT !.is_used = TRUE])]

\* C4: resolve-local of a name that is declared in the scope stack records the
\* node with the distance to the innermost declaring scope and marks that slot,
\* and no other, used.
C4_InnermostFirst ==
    [][input'.op = "resolve_local" /\ ScopesWith(result.scopes, input'.lexeme) # {}
        => LET i == InnermostWith(result.scopes, input'.lexeme)
           IN /\ input'.id \in DOMAIN result'.locals
              /\ result'.locals[input'.id] = Len(result.scopes) - 1 - i
              /\ result'.scopes = MarkedUsed(result.scopes, i, input'.lexeme)]_vars


\* the environment `distance` parents from the current one exists and holds a
\* slot for the name
SlotAt(distance, lexeme) ==
    LET ancestor == Environment_ancestor(envs, environment, distance)
    IN ancestor # 0 /\ DictHas(envs[ancestor].values, lexeme)

\* C5: in a program the resolver accepted, whenever the interpreter evaluates a
\* Variable or completes an Assign to which the resolver assigned a distance,
\* the environment at that distance from the current one exists and holds the
\* name, so get_at, ancestor and assign_at do not fail.
C5_DistancesValid ==
    /\ (Evaluating("Variable") /\ ctl.node.id \in DOMAIN locals)
        => SlotAt(locals[ctl.node.id], ctl.node.name.lexeme)
    /\ (Resuming("assign") /\ Top.expr.id \in DOMAIN locals)
        => SlotAt(locals[Top.expr.id], Top.expr.name.lexeme)
    /\ ctl.op = "raise" => ctl.exc.t \notin {"AssertionError", "KeyError"}


\* LoxFunction.call or LoxLambdaExpression.call is entered
CallEnters == CallChecked /\ Top.callee.k \in {"function", "lambda"}

\* C6: a call of a user function or lambda runs the body in a new environment
\* whose parent is the closure of the callable and leaves every environment
\* that existed before as it was; no step ever changes the parent of an
\* environment or adds a name to an environment other than the current one.
C6_FreshCallEnvironment ==
    [][/\ CallEnters
            => /\ Len(envs') = Len(envs) + 1
               /\ environment' = Len(envs) + 1
               /\ envs'[environment'].enclosing = Top.callee.closure
               /\ \A e \in DOMAIN envs : envs'[e] = envs[e]
       /\ \A e \in DOMAIN envs :
            /\ e \in DOMAIN envs'
            /\ envs'[e].enclosing = envs[e].enclosing
            /\ envs'[e].values.keys # envs[e].values.keys => e = environment]_vars

\* a call has just been entered from an environment that is not the closure
\* of the function called
C6_Witness ==
    /\ Len(kont) >= 2
    /\ Top.f = "block"
    /\ kont[Len(kont) - 1].f \in {"function_call", "lambda_call"}
    /\ environment = kont[Len(kont) - 1].environment
    /\ envs[environment].values.keys # <<>>
    /\ kont[Len(kont) - 1].function.closure # Top.previous_environment


\* C7: run to its end, the program of scenario 1 has printed 1, 2 and 3 for the
\* three calls of the closure, and the program with two closures made by two
\* calls of make() has printed 1 and 2 for the first and 1 for the second.
C7_ClosureCounts ==
    phase = "done"
        => /\ source = CounterProgram => output = <<"1", "2", "3">>
           /\ source = TwoCountersProgram => output = <<"1", "2", "1">>


\* the number of elements of the sequence that satisfy the test
Count(seq, Test(_)) == Cardinality({i \in DOMAIN seq : Test(seq[i])})

BreakOutsideLoop(break) == break.active_loops = 0
BreakOutsideLoopError(error) == error.message = "'break' outside loop."

\* C8: the parser reports "'break' outside loop." for exactly the break
\* statements met while no while or for statement is being parsed; at each
\* break statement the loop counter equals the number of loop statements being
\* parsed, and it is 0 when parse() returns.
C8_LoopCounter ==
    phase = "tokens_parsed"
        => /\ Count(result.errors, BreakOutsideLoopError)
                = Count(result.break_seen, BreakOutsideLoop)
           /\ \A i \in DOMAIN result.break_seen :
                result.break_seen[i].loop_count = result.break_seen[i].active_loops
           /\ result.loop_count = 0


\* a Break or Return signal is being raised
Signalled(types) == ctl.op = "raise" /\ ctl.exc.t \in types

\* C9: a Break never propagates out of a call of a function or lambda, and
\* neither a Break nor a Return propagates out of Interpreter.interpret.
C9_SignalsContained ==
    /\ ~(Signalled({"Break"}) /\ kont # <<>> /\ Top.f \in {"function_call", "lambda_call"})
    /\ ~(Signalled({"Break", "Return"}) /\ (kont = <<>> \/ Top.f = "interpret"))


\* the environment in which the lookup of the Variable node under evaluation
\* ends: the one at the resolver's distance, or globals
LookedUpEnvironment ==
    IF ctl.node.id \in DOMAIN locals
    THEN Environment_ancestor(envs, environment, locals[ctl.node.id])
    ELSE globals

\* the Variable node under evaluation has a slot where it is looked up
ReadsSlot ==
    /\ Evaluating("Variable")
    /\ LookedUpEnvironment # 0
    /\ DictHas(envs[LookedUpEnvironment].values, ctl.node.name.lexeme)

ReadSlot == DictAt(envs[LookedUpEnvironment].values, ctl.node.name.lexeme)

\* C10: reading a variable whose slot is not initialized raises the runtime
\* error "Uninitialized variable: <name>.", whether the slot is in globals or
\* at a resolver distance; reading an initialized slot yields its value.
C10_UninitializedRead ==
    [][ReadsSlot
        => ctl' = IF ReadSlot.is_initialized
                  THEN Value(ReadSlot.value)
                  ELSE Raise(RuntimeException(ctl.node.name,
                         "Uninitialized variable: " \o ctl.node.name.lexeme \o "."))]_vars


\* the checks of visit_call_expr are reached with a callee that is not
\* callable, or with a number of arguments that is not its arity
CallRefused ==
    /\ ctl.op = "invoke"
    /\ \/ ~IsLoxCallable(Top.callee)
       \/ Len(Top.arguments) # Arity(Top.callee)

\* C11: the checks of a call are reached with the callee and every argument
\* evaluated; a callee that is not callable or a wrong number of arguments
\* then raises a runtime error at the call's parenthesis, and that step
\* creates no environment, enters no body and prints nothing.
C11_CallChecks ==
    [][/\ ctl.op = "invoke"
            => /\ Top.f = "callexpr"
               /\ Top.at = "arguments"
               /\ Len(Top.arguments) = Len(Top.expr.arguments)
       /\ CallRefused
            => /\ ctl'.op = "raise"
               /\ ctl'.exc.t = "RuntimeException"
               /\ ctl'.exc.token = Top.expr.paren
               /\ kont' = Popped
               /\ envs' = envs
               /\ environment' = environment
               /\ output' = output]_vars

\* a call with two arguments of a function of one parameter has been refused
C11_Witness ==
    /\ ctl.op = "raise"
    /\ ctl.exc.t = "RuntimeException"
    /\ ctl.exc.message = "Expected 1 arguments but got 2."
    /\ Len(envs) = 1
    /\ output = <<"0">>


\* the runtime errors reported so far
RuntimeReports(reports) == {i \in DOMAIN reports : reports[i].type = "Runtime"}

\* C12: when a runtime error reaches interpret, the runtime-error callback
\* reports it, had_runtime_error is set and the run is over with the
\* remaining statements not executed, while the environments and the output
\* of the statements before it are kept; the callback is invoked once in a
\* run that had a runtime error and never otherwise, and nothing happens
\* after the run is over.
C12_RuntimeErrorAborts ==
    [][/\ (Raising("interpret") /\ ctl.exc.t = "RuntimeException")
            => /\ reported' = Append(reported, RuntimeReport(ctl.exc))
               /\ had_runtime_error'
               /\ phase' = "done"
               /\ kont' = <<>>
               /\ ctl' = Idle
               /\ envs' = envs
               /\ output' = output
       /\ Cardinality(RuntimeReports(reported')) = IF had_runtime_error' THEN 1 ELSE 0
       /\ phase # "done"]_vars

\* a run is over after a runtime error in a statement that follows a print
\* and a definition and is followed by a print
C12_Witness ==
    /\ source = ArityProgram
    /\ phase = "done"
    /\ had_runtime_error
    /\ output = <<"0">>
    /\ DictHas(envs[globals].values, "f")
    /\ Cardinality(RuntimeReports(reported)) = 1


\* C13: a call of a function that is an initializer yields the `this` of its
\* closure, whether the body falls through or returns, and a call of any
\* other function yields the returned value, or nil when the body falls
\* through; the program that calls a bound init three ways prints true for
\* each.
C13_InitializerYieldsThis ==
    [][/\ Completed("function_call")
            => ctl' = IF Top.function.is_initializer
                      THEN Value(DictAt(envs[Top.function.closure].values, "this").value)
                      ELSE Value(Nil)
       /\ (Raising("function_call") /\ ctl.exc.t = "Return")
            => ctl' = IF Top.function.is_initializer
                      THEN Value(DictAt(envs[Top.function.closure].values, "this").value)
                      ELSE Value(ctl.exc.value)
       /\ (source = InitializerProgram /\ phase' \in {"done", "crashed"})
            => output' = <<"true", "true", "true">>]_vars


\* the class the declaration under execution has bound to its name
DeclaredClass == DictAt(envs'[environment].values, ctl.node.name.lexeme).value

\* the method map holds the declared methods, is_initializer set for init alone
HoldsMethods(methods, declarations) ==
    /\ methods.keys = [i \in DOMAIN declarations |-> declarations[i].name.lexeme]
    /\ \A i \in DOMAIN declarations :
        /\ methods.at[i].declaration = declarations[i]
        /\ methods.at[i].is_initializer = (declarations[i].name.lexeme = "init")

\* C14: executing a class declaration completes without error and binds the
\* name in the current environment to a class whose method map holds every
\* declared method; a call of a class makes a new instance of that class and
\* returns it; scenario 4 prints 7.
C14_ClassDeclaration ==
    [][/\ Executing("Class")
            => /\ ctl' = Done
               /\ DictHas(envs'[environment].values, ctl.node.name.lexeme)
               /\ DeclaredClass.k = "class"
               /\ HoldsMethods(instances'[DeclaredClass.ref].methods, ctl.node.methods)
       /\ (CallChecked /\ Top.callee.k = "class")
            => /\ Len(instances') = Len(instances) + 1
               /\ instances'[Len(instances')].klass = Top.callee.ref
               /\ kont'[Len(Popped) + 1] =
                    [f |-> "class_call", instance |-> LoxInstanceRef(Len(instances'))]
       /\ Resuming("class_call") => ctl' = Value(Top.instance)
       /\ (source = ScenarioFourProgram /\ phase' \in {"done", "crashed"})
            => output' = <<"7">>]_vars


\* the instance a bound method sees as `this`
BoundThis(heap, method) == DictAt(heap[method.closure].values, "this").value

\* C15: obj.name on an instance yields the field `name` if the instance has
\* one, even when its class has a method of that name; otherwise the method of
\* the class bound to that instance, which still sees the instance as `this`
\* when it is stored and called later; with neither it is a runtime error.
C15_PropertyAccess ==
    [][/\ (Resuming("get") /\ IsLoxInstance(ctl.value))
            => LET object == instances[ctl.value.ref]
                   name == Top.expr.name.lexeme
                   method == LoxClass_find_method(instances, object.klass, name)
               IN IF DictHas(object.fields, name)
                  THEN ctl' = Value(DictAt(object.fields, name))
                  ELSE IF method # NoneNode
                  THEN \/ /\ ctl'.op = "value"
                          /\ ctl'.value.declaration = method.declaration
                          /\ BoundThis(envs', ctl'.value) = ctl.value
                       \/ method.is_getter
                  ELSE /\ ctl'.op = "raise"
                       /\ ctl'.exc.t = "RuntimeException"
                       /\ ctl'.exc.token = Top.expr.name
       /\ (source = PropertyProgram /\ phase' \in {"done", "crashed"})
            => /\ output' = <<"1", "2">>
               /\ phase' = "done"
               /\ had_runtime_error'
               /\ reported'[Len(reported')].message = "Undefined property z."]_vars


\* the left operand of the logical expression on top of the stack decides it
LeftDecides ==
    IF Top.expr.operator.type = "OR" THEN Interpreter_is_truthy(ctl.value)
    ELSE ~Interpreter_is_truthy(ctl.value)

\* C16: `a or b` evaluates b only when a is falsy, `a and b` only when a is
\* truthy, and `c ? t : e` evaluates exactly one of t and e; the result is the
\* value of the last operand evaluated, not a boolean made of it, and the
\* skipped operand has no effect.
C16_ShortCircuit ==
    [][/\ Resuming("logical")
            => /\ ctl' = IF LeftDecides THEN Value(ctl.value) ELSE Eval(Top.expr.right)
               /\ kont' = Popped
               /\ envs' = envs /\ environment' = environment /\ output' = output
       /\ Resuming("ternary")
            => /\ ctl' = IF Interpreter_is_truthy(ctl.value) THEN Eval(Top.expr.consequent)
                         ELSE Eval(Top.expr.alternative)
               /\ kont' = Popped
               /\ envs' = envs /\ environment' = environment /\ output' = output
       /\ (source = LogicalProgram /\ phase' = "done")
            => /\ output' = <<"true", "nil", "0", "1", "2">>
               /\ DictAt(envs'[globals].values, "x").value = Num(2)
       /\ (source = TernaryProgram /\ phase' = "done")
            => /\ output' = <<"t", "0", "e", "0", "1">>
               /\ DictAt(envs'[globals].values, "x").value = Num(1)
       /\ (source \in {LogicalProgram, TernaryProgram}) => phase' # "crashed"]_vars

C16_Witness ==
    /\ source = LogicalProgram
    /\ phase = "done"
    /\ ~had_runtime_error
    /\ output = <<"true", "nil", "0", "1", "2">>


\* the message is one of the two that visit_call_expr raises before the call
IsCallCheckMessage(message) ==
    \/ message = "Can only call functions and methods."
    \/ Len(message) > 9 /\ Slice(message, 0, 9) = "Expected "

\* C17: in a binary expression the left operand is evaluated, effects
\* included, before the right one, and both before any check of the operand
\* types; in a call the callee is evaluated first, then the arguments in
\* source order, and only then the callable and arity checks are made.
C17_LeftToRight ==
    [][/\ Evaluating("Binary") => ctl' = Eval(ctl.node.left)
       /\ (Resuming("binary") /\ Top.at = "left")
            => /\ ctl' = Eval(Top.expr.right)
               /\ kont'[Len(kont)].left = ctl.value
               /\ envs' = envs /\ output' = output
       /\ (Resuming("binary") /\ ctl'.op = "raise") => Top.at = "right"
       /\ Evaluating("Call") => ctl' = Eval(ctl.node.callee)
       /\ Resuming("callexpr")
            => LET frame == kont'[Len(kont)]
               IN /\ frame.callee = IF Top.at = "callee" THEN ctl.value ELSE Top.callee
                  /\ frame.arguments = IF Top.at = "callee" THEN <<>>
                                       ELSE Append(Top.arguments, ctl.value)
                  /\ ctl' = IF Len(frame.arguments) < Len(Top.expr.arguments)
                            THEN Eval(Top.expr.arguments[Len(frame.arguments) + 1])
                            ELSE Invoke
       /\ (/\ ctl.op # "raise" /\ ctl'.op = "raise"
           /\ ctl'.exc.t = "RuntimeException"
           /\ IsCallCheckMessage(ctl'.exc.message))
            => /\ ctl.op = "invoke"
               /\ Len(Top.arguments) = Len(Top.expr.arguments)
       /\ (source = BinaryOrderProgram /\ phase' = "done")
            => /\ output' = <<"4", "-3">>
               /\ had_runtime_error'
               /\ DictAt(envs'[globals].values, "a").value = Num(7)
       /\ (source = CallOrderProgram /\ phase' = "done")
            => /\ output' = <<"2", "b">>
               /\ reported'[Len(reported')].message = "Can only call functions and methods."
       /\ (source = ArityOrderProgram /\ phase' = "done")
            => /\ output' = <<"2">>
               /\ reported'[Len(reported')].message = "Expected 0 arguments but got 2."
       /\ (source \in {BinaryOrderProgram, CallOrderProgram, ArityOrderProgram})
            => phase' # "crashed"]_vars

C17_Witness ==
    /\ source = CallOrderProgram
    /\ phase = "done"
    /\ had_runtime_error
    /\ output = <<"2", "b">>
    /\ DictAt(envs[globals].values, "a").value = Num(2)


\* the kinds of value the language tells apart
Kind(value) ==
    CASE value.k \in {"function", "lambda", "native"} -> "callable"
      [] OTHER -> value.k

\* C18: `==` on two values of different kinds is false, so a boolean never
\* equals a number; nil equals only nil; `a != b` is the negation of `a == b`.
C18_Equality ==
    phase = "compared"
        => /\ result.equal.exc = NoneNode /\ result.unequal.exc = NoneNode
           /\ Kind(input[1]) # Kind(input[2]) => result.equal.value = Bool(FALSE)
           /\ (input[1] = Nil \/ input[2] = Nil)
                => result.equal.value = Bool(input[1] = input[2])
           /\ result.unequal.value = Bool(~result.equal.value.b)


\* C19: a string prints as itself, whatever the string; of the other values
\* only nil prints as "nil" and only the booleans print as "true" and
\* "false"; a class prints as "<class NAME>".
C19_Stringify ==
    phase = "printed"
        => LET value == input[1]
               text == output[1]
           IN /\ value.k = "str" => text = value.s
              /\ text = "nil" => value \in {Nil, Str("nil")}
              /\ text \in {"true", "false"} => value.k \in {"bool", "str"}
              /\ value.k = "bool" => text = (IF value.b THEN "true" ELSE "false")
              /\ value.k = "class" => text = "<class " \o instances[value.ref].name \o ">"


\* the characters __scan_token has a case for
KnownCharacters ==
    {"(", ")", "{", "}", ",", ".", "-", "+", ":", ";", "*", "%", "?", "!", "=", "<", ">",
     "/", " ", "\r", "\t", "\n", "\""} \cup Digits \cup Letters

\* the text is digits, or digits, a dot and digits: float(text) returns
IsFloatText(text) ==
    /\ Len(text) > 0
    /\ \A i \in 1..Len(text) :
        \/ SubSeq(text, i, i) \in Digits
        \/ /\ SubSeq(text, i, i) = "."
           /\ 1 < i /\ i < Len(text)
           /\ \A j \in 1..Len(text) : SubSeq(text, j, j) = "." => j = i

EndOfInputTokens(token_list) == {i \in DOMAIN token_list : token_list[i].type = "EOF"}

\* C20: scan_tokens ends on every source and raises nothing (no index
\* past the end of the source is read, float is given only number texts);
\* an unknown character is reported through the callback and the scan goes on
\* with the character after it; the tokens returned hold one end-of-input
\* token, the last.
C20_ScanTerminates ==
    /\ <>(phase = "scanned")
    /\ [](/\ result.current <= Len(source)
          /\ \A i \in DOMAIN result.tokens :
                result.tokens[i].type = "NUMBER" => IsFloatText(result.tokens[i].lexeme)
          /\ phase = "scanned" => /\ tokens # <<>>
                                  /\ EndOfInputTokens(tokens) = {Len(tokens)})
    /\ [][(phase = "scanning" /\ ~ScIsAtEnd(result))
            => /\ result'.current > result.current
               /\ CharAt(source, result.current) \notin KnownCharacters
                    => /\ result'.errors = Append(result.errors,
                                [message |-> "Unexpected character.", line |-> result.line])
                       /\ result'.current = result.current + 1
                       /\ result'.tokens = result.tokens
                       /\ phase' = "scanning"]_vars

C20_Witness ==
    /\ source = "1@a"
    /\ phase = "scanned"
    /\ Len(result.errors) = 1
    /\ Len(tokens) = 3
    /\ tokens[2].type = "IDENTIFIER"


\* source[i:i+2]
TwoAt(src, i) == IF i + 1 < Len(src) THEN Slice(src, i, i + 2) ELSE Slice(src, i, Len(src))

\* the index just after the `*/` that brings the depth of the comment entered
\* before index i back to zero, or -1 when the source ends first
RECURSIVE CommentClose(_, _, _)
CommentClose(src, i, depth) ==
    IF depth = 0 THEN i
    ELSE IF i >= Len(src) THEN -1
    ELSE IF TwoAt(src, i) = "/*" THEN CommentClose(src, i + 2, depth + 1)
    ELSE IF TwoAt(src, i) = "*/" THEN CommentClose(src, i + 2, depth - 1)
    ELSE CommentClose(src, i + 1, depth)

\* the scanner is about to scan the `/*` that opens a block comment
AtBlockComment ==
    /\ phase = "scanning"
    /\ TwoAt(source, result.current) = "/*"

\* C21: block comments nest: after `/*` no token is emitted up to the `*/`
\* that brings the depth back to zero; when the input ends before that, the
\* scanner consumes the input to its end and reports "Unterminated block
\* comment." once, so that only the end-of-input token follows.
C21_BlockComments ==
    [][AtBlockComment
        => LET close == CommentClose(source, result.current + 2, 1)
           IN /\ result'.tokens = result.tokens
              /\ IF close # -1
                 THEN /\ result'.current = close
                      /\ result'.errors = result.errors
                 ELSE /\ result'.current = Len(source)
                      /\ Len(result'.errors) = Len(result.errors) + 1
                      /\ result'.errors[Len(result'.errors)].message
                            = "Unterminated block comment."]_vars


\* the source text of a list of arguments
RECURSIVE UnparseList(_, _)

\* the source text of an expression made of variables, calls and property reads
RECURSIVE Unparse(_)
Unparse(node) ==
    CASE node.t = "Variable" -> node.name.lexeme
      [] node.t = "Call" -> Unparse(node.callee) \o "(" \o UnparseList(node.arguments, 1) \o ")"
      [] node.t = "Get" -> Unparse(node.object) \o "." \o node.name.lexeme
      [] OTHER -> "?"

UnparseList(nodes, i) ==
    IF i > Len(nodes) THEN ""
    ELSE Unparse(nodes[i]) \o (IF i < Len(nodes) THEN "," ELSE "") \o UnparseList(nodes, i + 1)

\* C22: any sequence of call and property suffixes after a primary is
\* accepted, in any order and of any length, each suffix wrapping the
\* expression before it (f(a)(b) is Call(Call(f,[a]),[b])), and no parse
\* error is reported.
C22_SuffixChains ==
    phase = "tokens_parsed"
        => /\ ~had_error
           /\ reported = <<>>
           /\ Len(statements) = 1
           /\ statements[1].t = "Expression"
           /\ Unparse(statements[1].expression) \o ";" = source


\* the keywords a statement starts with
StatementKeywords == {"CLASS", "FUN", "VAR", "FOR", "IF", "WHILE", "PRINT", "RETURN"}

\* the first position from c on that lies just after a semicolon or at a
\* statement keyword (or at the end of the input); c tokens are consumed
RECURSIVE ResumePoint(_, _)
ResumePoint(token_list, c) ==
    IF \/ token_list[c].type = "SEMICOLON"
       \/ token_list[c + 1].type \in StatementKeywords \cup {"EOF"}
    THEN c
    ELSE ResumePoint(token_list, c + 1)

\* the declaration about to be parsed raises the parse-error sentinel
DeclarationFails ==
    /\ phase = "tokens"
    /\ ~Parser_is_at_end(result)
    /\ Parser_declaration_try(result).ps.exc

\* the position at which the sentinel is raised
FailsAt == Parser_declaration_try(result).ps.current

\* C23: parse ends on every token list that ends with end-of-input (every
\* iteration of its loop returns and consumes a token, and no token lies
\* after end-of-input); a parse error that raises the sentinel is reported
\* through the callback, its declaration adds no statement, one token at
\* least is consumed before parsing resumes, and parsing resumes just after
\* the next semicolon or at the next statement keyword.
C23_ParseRecovers ==
    /\ [](result.current < Len(tokens))
    /\ [][/\ (phase = "tokens" /\ ~Parser_is_at_end(result))
                => /\ result'.current > result.current
                   /\ phase' = "tokens"
          /\ DeclarationFails
                => /\ Len(reported') > Len(reported)
                   /\ reported'[Len(reported')].type = "Parse"
                   /\ had_error'
                   /\ statements' = statements
                   /\ result'.current =
                        IF tokens[FailsAt + 1].type = "EOF" THEN FailsAt
                        ELSE ResumePoint(tokens, FailsAt + 1)
          /\ (phase = "tokens" /\ ~Parser_is_at_end(result) /\ ~DeclarationFails)
                => Len(statements') = Len(statements) + 1]_vars

C23_Witness ==
    /\ source = "1 1 print ; "
    /\ phase = "tokens_parsed"
    /\ Len(reported) = 2
    /\ statements = <<>>

\* a declaration that is no block is about to be parsed
AtPlainDeclaration ==
    /\ phase = "tokens"
    /\ ~Parser_is_at_end(result)
    /\ Parser_peek(result).type # "LEFT_BRACE"

\* C23 as stated: the declaration in which any parse error is reported adds
\* no statement to the result.
C23_EveryErrorDrops ==
    [][(AtPlainDeclaration /\ Len(reported') > Len(reported))
            => statements' = statements]_vars


\* the errors reported for the entries beyond MaxArity
TooManyErrors(entries) ==
    [i \in 1..(IF entries > MaxArity THEN entries - MaxArity ELSE 0) |->
        IF input[1] = "function" THEN "Can't have more than 255 parameters."
        ELSE "Can't have more than 255 arguments."]

\* C24: a parameter list or an argument list of 255 entries is parsed with
\* no error; in a list of n > 255 entries one error is reported for each
\* entry beyond the 255th, no sentinel is thrown, and the Function or Call
\* node holds all n entries.
C24_ArityCap ==
    /\ phase # "raised"
    /\ ~result.ps.exc
    /\ [i \in DOMAIN result.ps.errors |-> result.ps.errors[i].message]
            = TooManyErrors(IF phase = "entries" THEN Len(result.node) ELSE input[2])
    /\ phase = "tokens_parsed"
            => /\ Len(statements) = 1
               /\ IF input[1] = "function"
                  THEN /\ statements[1].t = "Function"
                       /\ Len(statements[1].params) = input[2]
                  ELSE /\ statements[1].expression.t = "Call"
                       /\ Len(statements[1].expression.arguments) = input[2]

C24_Witness ==
    /\ phase = "tokens_parsed"
    /\ input = <<"function", MaxArity + 1>>
    /\ Len(result.ps.errors) = 1
    /\ Len(statements[1].params) = MaxArity + 1


OwnInitializerMessage == "Can't read local variable in its own initializer."

OwnInitializerReported == \E i \in DOMAIN reported : reported[i].message = OwnInitializerMessage

\* C25: a local variable read inside its own initializer (declared in the
\* current scope, not yet defined) makes the resolver report "Can't read
\* local variable in its own initializer.": once the resolver has run on
\* `{ var a = a; }` that error is among the reported ones.
C25_OwnInitializer ==
    phase = "resolved" /\ source = OwnInitializerProgram
        => OwnInitializerReported /\ had_error


LoxKinds == {"nil", "bool", "num", "str", "callable", "class", "instance"}

\* C26: every value that evaluating an expression yields is nil, a boolean,
\* a number, a string, a callable, a class or an instance; reading a
\* property of an instance yields a value of one of these kinds.
C26_ValueKinds == ctl.op = "value" => Kind(ctl.value) \in LoxKinds


\* Block([initializer, While(condition, Block([body, Expression(increment)]))])
DesugaredFor(node) ==
    /\ node.t = "Block"
    /\ Len(node.statements) = 2
    /\ node.statements[1].t = "Var"
    /\ node.statements[2].t = "While"
    /\ node.statements[2].condition.t = "Binary"
    /\ node.statements[2].body.t = "Block"
    /\ Len(node.statements[2].body.statements) = 2
    /\ node.statements[2].body.statements[1].t = "Block"
    /\ node.statements[2].body.statements[2].t = "Expression"
    /\ node.statements[2].body.statements[2].expression.t = "Assign"

\* C27: a for statement is parsed into a block of the initializer and a
\* while loop whose body runs the original body and then the increment; at
\* run time the increment runs after every completed iteration and a break
\* ends the loop, so scenario 3 prints 0, 1, 2 and reports no error.
C27_ForLoop ==
    source = ScenarioThreeProgram
        => /\ phase \in {"parsed", "running", "done"}
                => Len(statements) = 1 /\ DesugaredFor(statements[1])
           /\ phase = "done"
                => output = <<"0", "1", "2">> /\ ~had_runtime_error


\* C28: every parameter of a lambda must be an identifier token: a lambda
\* with any other token as a parameter is reported as a parse error and
\* produces no Lambda node, so `var f = fun (1) {};` is reported and its
\* declaration contributes no statement.
C28_LambdaParameters ==
    source = LambdaParameterProgram /\ phase \in {"parsed", "running", "done"}
        => /\ had_error
           /\ \A i \in DOMAIN statements :
                ~(statements[i].t = "Var" /\ statements[i].initializer.t = "Lambda")


\* the nodes a node holds, in the order the resolver visits them
Children(node) ==
    CASE node.t = "Block" -> node.statements
      [] node.t \in {"Expression", "Print", "Grouping"} -> <<node.expression>>
      [] node.t \in {"Function", "Lambda"} -> node.body
      [] node.t = "Class" -> node.methods
      [] node.t = "If" ->
            <<node.condition, node.then_branch>>
            \o (IF node.else_branch # NoneNode THEN <<node.else_branch>> ELSE <<>>)
      [] node.t = "Return" -> IF node.value # NoneNode THEN <<node.value>> ELSE <<>>
      [] node.t = "Var" -> IF node.initializer # NoneNode THEN <<node.initializer>> ELSE <<>>
      [] node.t = "While" -> <<node.condition, node.body>>
      [] node.t = "Assign" -> <<node.value>>
      [] node.t \in {"Binary", "Logical"} -> <<node.left, node.right>>
      [] node.t = "Call" -> <<node.callee>> \o node.arguments
      [] node.t = "Get" -> <<node.object>>
      [] node.t = "Set" -> <<node.value, node.object>>
      [] node.t = "Unary" -> <<node.right>>
      [] node.t = "Ternary" -> <<node.condition, node.consequent, node.alternative>>
      [] OTHER -> <<>>

RECURSIVE NodesOf(_), NodesOfList(_)

\* the node and every node below it
NodesOf(node) == <<node>> \o NodesOfList(Children(node))

NodesOfList(nodes) ==
    IF nodes = <<>> THEN <<>> ELSE NodesOf(Head(nodes)) \o NodesOfList(Tail(nodes))

\* a resolver inside some scopes, a function and a class
ResolverInside(depth, function, class_) ==
    [Resolver(<<>>) EXCEPT !.scopes = [i \in 1..depth |-> EmptyDict],
                           !.current_function = function,
                           !.current_class = class_]

\* resolving the node leaves as many scopes as it found, and the same
\* current function and class
Balanced(rs, node) ==
    LET after == Resolver_resolve(rs, node)
    IN /\ Len(after.scopes) = Len(rs.scopes)
       /\ after.current_function = rs.current_function
       /\ after.current_class = rs.current_class

\* C29: the resolver leaves its state as it found it: after resolving a
\* statement list, with or without reported errors, the scope stack is empty
\* and current-function and current-class are NONE; every node, resolved at
\* any depth, leaves the depth of the stack and the current function and
\* class as they were, so the depth at a node is its lexical nesting depth.
C29_ResolverRestores ==
    phase = "parsed"
        => /\ LET resolver == Resolver_run(locals, statements)
              IN /\ resolver.scopes = <<>>
                 /\ resolver.current_function = "NONE"
                 /\ resolver.current_class = "NONE"
           /\ LET nodes == NodesOfList(statements)
              IN \A i \in DOMAIN nodes :
                    \A depth \in 0..MaxScopes :
                        \A function \in {"NONE", "FUNCTION", "METHOD"} :
                            \A class_ \in {"NONE", "CLASS"} :
                                Balanced(ResolverInside(depth, function, class_), nodes[i])

\* the resolver has reported an error in a program with a block or a function
C29_Witness ==
    /\ phase = "resolved"
    /\ had_error
    /\ \E i \in DOMAIN statements : statements[i].t \in {"Block", "Function", "Class"}
    /\ LET resolver == Resolver_run(<<>>, statements)
       IN resolver.errors # <<>> /\ resolver.scopes = <<>>


\* the interpreter is between two lines, or __run has not reached interpret
BetweenLines == phase \in {"done", "prompt", "start", "scanned", "parsed"}

\* C30: across the lines of a session the same interpreter is used: what a
\* line has defined is kept until the next line runs; had_error and
\* had_runtime_error are both false when a line starts being processed; and
\* the current environment is the global environment at the start of every
\* line, also after a line that a runtime error has aborted inside nested
\* blocks or calls.
C30_PromptLines ==
    /\ [](phase \in {"prompt", "start"}
            => /\ ~had_error
               /\ ~had_runtime_error
               /\ environment = globals
               /\ kont = <<>>)
    /\ [][BetweenLines
            => /\ envs' = envs
               /\ environment' = environment
               /\ locals' = locals
               /\ instances' = instances]_vars

\* after the line that defines a and fails inside f, `print a;` prints 1
C30_Witness ==
    /\ phase = "exited"
    /\ source = "print a;"
    /\ output = <<"1">>
    /\ Len(reported) = 1
    /\ reported[1].message = "Undefined variable: b."
    /\ environment = globals

====
